---- MODULE Spec2Model ----
(***************************************************************************)
(* Model of the atmospheric turbulence profile engine of the QKD planner   *)
(* (src/app/atmosphere.py, src/app/meteo_field.py, src/app/main.py).       *)
(*                                                                         *)
(* Conventions                                                             *)
(*   - an optional value (Python None) is the empty sequence <<>>, a       *)
(*     present value v is <<v>>;                                           *)
(*   - latitudes and longitudes are integers in units of 1e-4 degree, the  *)
(*     rounded cache keys are integers in units of 1e-3 degree;            *)
(*   - Open-Meteo variable names are numbered in their lexicographic       *)
(*     order, so sorting the numbers is sorting the names;                 *)
(*   - Python objects that can be aliased (the dicts of a dataset) live in *)
(*     `heap`, addressed by positive integers.                             *)
(***************************************************************************)
EXTENDS Integers, Sequences, FiniteSets, TLC

VARIABLES
    cache,      \* lru_cache of _fetch_open_meteo_cached: entries, least recently used first
    heap,       \* Python objects of the datasets: id -> [hourly, val]
    hist,       \* the last two completed fetch_hourly calls, oldest first
    recent,     \* keys that were fetched successfully, least recently used first (no capacity)
    ncalls,     \* number of fetch_hourly calls made so far
    threads,    \* worker threads: where each one is inside fetch_hourly
    issued,     \* the remote requests issued by the worker threads, in order
    fin,        \* the arguments of the function under study
    fout        \* what the function returned or raised

cacheVars == <<cache, heap, hist, recent, ncalls>>

concVars == <<threads, issued>>

pureVars == <<fin, fout>>

vars == <<cache, heap, hist, recent, ncalls, threads, issued, fin, fout>>

----------------------------------------------------------------------------
(* Bounds of the model *)

MaxCalls == 3

MaxConcCalls == 3

----------------------------------------------------------------------------
(* Generic helpers *)

None == <<>>

Some(v) == <<v>>

Min(a, b) == IF a <= b THEN a ELSE b

Max(a, b) == IF a >= b THEN a ELSE b

Range(s) == {s[i] : i \in 1..Len(s)}

SetMin(S) == CHOOSE x \in S : \A y \in S : x <= y

RECURSIVE SetToSortedSeq(_)
SetToSortedSeq(S) ==
    IF S = {} THEN <<>>
    ELSE LET m == SetMin(S) IN <<m>> \o SetToSortedSeq(S \ {m})

RemoveAt(s, i) == SubSeq(s, 1, i - 1) \o SubSeq(s, i + 1, Len(s))

----------------------------------------------------------------------------
(* OpenMeteoClient.fetch_hourly and the lru_cache around the remote call *)

\* lru_cache(maxsize=128)
CacheMaxSize == 128

\* round(x, 3) of a coordinate given in 1e-4 degree: the nearest 1e-3 degree,
\* a tie going to the even neighbour
Round3(x) ==
    LET q == x \div 10
        r == x % 10
    IN  IF r < 5 THEN q
        ELSE IF r > 5 THEN q + 1
        ELSE IF q % 2 = 0 THEN q ELSE q + 1

\* tuple(sorted(set(variables)))
VariableTuple(variables) == SetToSortedSeq(Range(variables))

\* the arguments _fetch_open_meteo_cached is called with, which are the cache key
CacheKey(call) ==
    [lat  |-> Round3(call.lat),
     lon  |-> Round3(call.lon),
     date |-> call.date,
     vars |-> VariableTuple(call.variables)]

\* what one remote request can come back with
RemoteOutcomes ==
    {"hourly", "no_hourly", "conn_error", "timeout", "http_error", "not_json", "json_null"}

\* requests.get / raise_for_status raising a RequestException
RequestFailed(outcome) == outcome \in {"conn_error", "timeout", "http_error"}

\* the result of the body of _fetch_open_meteo_cached for one remote outcome:
\* "data" (returns the parsed body), "provider_error" or "other_error" (an
\* exception that is not an AtmosphereProviderError)
RemoteResult(outcome) ==
    IF RequestFailed(outcome) THEN "provider_error"
    ELSE IF outcome = "not_json" THEN "other_error"
    ELSE IF outcome = "json_null" THEN "other_error"
    ELSE IF outcome = "no_hourly" THEN "provider_error"
    ELSE "data"

\* Names of the Python objects. A parsed response is named after the request
\* that produced it (src "resp": one per cache key), the copy handed to a
\* caller after the slot of hist that holds the call (src "copy"); each dataset
\* is two objects, the dict itself ("top") and its hourly block ("inner").
NoKey == [lat |-> 0, lon |-> 0, date |-> "", vars |-> <<>>]

ObjId(src, key, n, part) == [src |-> src, key |-> key, n |-> n, part |-> part]

NoObj == ObjId("none", NoKey, 0, "top")

\* the parsed response: a new dict whose "hourly" entry is another new dict
AllocDataset(h, src, key, n, value) ==
    LET top   == ObjId(src, key, n, "top")
        inner == ObjId(src, key, n, "inner")
    IN  [heap |-> (top :> [hourly |-> inner, val |-> 0])
                  @@ (inner :> [hourly |-> NoObj, val |-> value]) @@ h,
         obj  |-> top]

\* a copy of the dict only, which shares the hourly block with the original
DeepCopy_Shallow(h, obj, slot) ==
    LET top == ObjId("copy", NoKey, slot, "top")
    IN  [heap |-> (top :> [hourly |-> h[obj].hourly, val |-> h[obj].val]) @@ h,
         obj  |-> top]

\* copy.deepcopy(raw): new objects all the way down
DeepCopy(h, obj, slot) ==
    LET top   == ObjId("copy", NoKey, slot, "top")
        inner == ObjId("copy", NoKey, slot, "inner")
    IN  [heap |-> (top :> [hourly |-> inner, val |-> h[obj].val])
                  @@ (inner :> h[h[obj].hourly]) @@ h,
         obj  |-> top]

\* the structural value of a dataset: its own entries and those of its hourly block
Value(h, obj) == <<h[obj].val, h[h[obj].hourly].val>>

\* position of a key in the cache, 0 when it is not cached
CacheIndex(c, key) ==
    IF \E i \in 1..Len(c) : c[i].key = key
    THEN CHOOSE i \in 1..Len(c) : c[i].key = key
    ELSE 0

\* a hit that leaves the order alone (first in, first out)
CacheTouch_NoMove(c, i) == c

\* a hit makes the entry the most recently used one
CacheTouch(c, i) == RemoveAt(c, i) \o <<c[i]>>

\* storing a result after a miss: a full cache drops its least recently used entry
CacheStore(c, key, obj) ==
    IF CacheIndex(c, key) # 0 THEN c
    ELSE IF Len(c) >= CacheMaxSize THEN Tail(c) \o <<[key |-> key, obj |-> obj]>>
    ELSE c \o <<[key |-> key, obj |-> obj]>>

\* objects that are still referenced: cached datasets and the datasets of the calls in hist
Live(h, c, calls) ==
    LET tops == {c[i].obj : i \in 1..Len(c)}
                \cup {calls[i].obj : i \in {j \in 1..Len(calls) : calls[j].obj # NoObj}}
    IN  tops \cup {h[t].hourly : t \in tops}

Collect(h, c, calls) == [i \in Live(h, c, calls) |-> h[i]]

\* number of distinct other keys fetched successfully since the last successful
\* fetch of key, -1 when key was never fetched successfully
GapOf(r, key) ==
    IF \E i \in 1..Len(r) : r[i] = key
    THEN Len(r) - (CHOOSE i \in 1..Len(r) : r[i] = key)
    ELSE -1

Use(r, key) ==
    LET i == CacheIndex([j \in 1..Len(r) |-> [key |-> r[j]]], key)
    IN  IF i = 0 THEN r \o <<key>> ELSE RemoveAt(r, i) \o <<key>>

\* fetch_hourly whose failed request also empties the cache
FetchHourly_FailureClearsCache(c, h, call, outcome, value, slot) ==
    LET key == CacheKey(call)
        i   == CacheIndex(c, key)
        base == [call |-> call, hit |-> FALSE, reqs |-> 0, outcome |-> "none",
                 res |-> "provider_error", obj |-> NoObj, val |-> <<0, 0>>,
                 gap |-> -1, dirty |-> FALSE, slot |-> slot]
    IN  IF call.variables = <<>> THEN
            [cache |-> c, heap |-> h, rec |-> base]
        ELSE IF i # 0 THEN
            LET cp == DeepCopy(h, c[i].obj, slot)
            IN  [cache |-> CacheTouch(c, i), heap |-> cp.heap,
                 rec |-> [base EXCEPT !.hit = TRUE, !.res = "ok", !.obj = cp.obj,
                                      !.val = Value(cp.heap, cp.obj)]]
        ELSE IF RemoteResult(outcome) # "data" THEN
            [cache |-> <<>>, heap |-> h,
             rec |-> [base EXCEPT !.reqs = 1, !.outcome = outcome,
                                  !.res = RemoteResult(outcome)]]
        ELSE
            LET raw == AllocDataset(h, "resp", key, 0, value)
                cp  == DeepCopy(raw.heap, raw.obj, slot)
            IN  [cache |-> CacheStore(c, key, raw.obj), heap |-> cp.heap,
                 rec |-> [base EXCEPT !.reqs = 1, !.outcome = outcome, !.res = "ok",
                                      !.obj = cp.obj, !.val = Value(cp.heap, cp.obj)]]

\* one complete fetch_hourly call on the cache c and heap h; outcome and value
\* are what the remote request returns if one is issued, slot names the copy
FetchHourly(c, h, call, outcome, value, slot) ==
    LET key == CacheKey(call)
        i   == CacheIndex(c, key)
        base == [call |-> call, hit |-> FALSE, reqs |-> 0, outcome |-> "none",
                 res |-> "provider_error", obj |-> NoObj, val |-> <<0, 0>>,
                 gap |-> -1, dirty |-> FALSE, slot |-> slot]
    IN  IF call.variables = <<>> THEN
            [cache |-> c, heap |-> h, rec |-> base]
        ELSE IF i # 0 THEN
            LET cp == DeepCopy(h, c[i].obj, slot)
            IN  [cache |-> CacheTouch(c, i), heap |-> cp.heap,
                 rec |-> [base EXCEPT !.hit = TRUE, !.res = "ok", !.obj = cp.obj,
                                      !.val = Value(cp.heap, cp.obj)]]
        ELSE IF RemoteResult(outcome) # "data" THEN
            [cache |-> c, heap |-> h,
             rec |-> [base EXCEPT !.reqs = 1, !.outcome = outcome,
                                  !.res = RemoteResult(outcome)]]
        ELSE
            LET raw == AllocDataset(h, "resp", key, 0, value)
                cp  == DeepCopy(raw.heap, raw.obj, slot)
            IN  [cache |-> CacheStore(c, key, raw.obj), heap |-> cp.heap,
                 rec |-> [base EXCEPT !.reqs = 1, !.outcome = outcome, !.res = "ok",
                                      !.obj = cp.obj, !.val = Value(cp.heap, cp.obj)]]

\* the state change of one fetch_hourly call that runs to completion
DoFetch(call, outcome, value) ==
    LET slot  == IF hist = <<>> THEN 1 ELSE 3 - hist[Len(hist)].slot
        f     == FetchHourly(cache, heap, call, outcome, value, slot)
        rec   == [f.rec EXCEPT !.gap = GapOf(recent, CacheKey(call))]
        calls == IF Len(hist) < 2 THEN Append(hist, rec) ELSE <<hist[2], rec>>
    IN  /\ cache' = f.cache
        /\ hist' = calls
        /\ heap' = Collect(f.heap, f.cache, calls)
        /\ recent' = IF rec.res = "ok" THEN Use(recent, CacheKey(call)) ELSE recent

\* the caller changes a dataset it got back: an entry of the dict itself
\* (part "top") or an entry of its hourly block (part "inner")
MutatedValue == 99

Mutate(i, part) ==
    /\ i \in 1..Len(hist)
    /\ hist[i].res = "ok"
    /\ ~hist[i].dirty
    /\ LET target == IF part = "top" THEN hist[i].obj ELSE heap[hist[i].obj].hourly
       IN  heap' = [heap EXCEPT ![target].val = MutatedValue]
    /\ hist' = [hist EXCEPT ![i].dirty = TRUE]
    /\ UNCHANGED <<cache, recent, ncalls, concVars, pureVars>>

----------------------------------------------------------------------------
(* Specification of sequential fetch_hourly calls on a few keys *)

\* two spellings of one request (40.4001 and 40.4004 both round to 40.400, the
\* variable names are the same set), a request at another latitude (40.4012
\* rounds to 40.401), one for another variable set and one without variables;
\* 1 and 2 stand for wind_u_component_300hPa and wind_v_component_300hPa
FetchCalls ==
    {[lat |-> 404001, lon |-> -37000, date |-> "2024-06-15", variables |-> <<1, 2>>],
     [lat |-> 404004, lon |-> -37000, date |-> "2024-06-15", variables |-> <<2, 1, 2>>],
     [lat |-> 404012, lon |-> -37000, date |-> "2024-06-15", variables |-> <<1, 2>>],
     [lat |-> 404001, lon |-> -37000, date |-> "2024-06-15", variables |-> <<1>>],
     [lat |-> 404001, lon |-> -37000, date |-> "2024-06-15", variables |-> <<>>]}

DataValues == {1, 2}

\* what the data source answers to one request: only a body with an hourly
\* block carries data
RemoteResponses ==
    {[outcome |-> o, value |-> 0] : o \in RemoteOutcomes \ {"hourly"}}
    \cup {[outcome |-> "hourly", value |-> v] : v \in DataValues}

InitCache ==
    /\ cache = <<>>
    /\ heap = <<>>
    /\ hist = <<>>
    /\ recent = <<>>
    /\ ncalls = 0

\* no worker thread is running
InitNoThreads ==
    /\ threads = <<>>
    /\ issued = <<>>

\* no function is under study
InitNoCall ==
    /\ fin = <<>>
    /\ fout = <<>>

Fetch ==
    /\ ncalls < MaxCalls
    /\ \E call \in FetchCalls, resp \in RemoteResponses :
          DoFetch(call, resp.outcome, resp.value)
    /\ ncalls' = ncalls + 1
    /\ UNCHANGED <<concVars, pureVars>>

MutateResult == \E i \in 1..2, part \in {"top", "inner"} : Mutate(i, part)

Init == InitCache /\ InitNoThreads /\ InitNoCall

Next == Fetch \/ MutateResult

Spec == Init /\ [][Next]_vars

\* two calls that ask for the same thing: coordinates that round to the same
\* 3 decimals, the same date and the same set of variable names
SameRequest(a, b) ==
    /\ Round3(a.lat) = Round3(b.lat)
    /\ Round3(a.lon) = Round3(b.lon)
    /\ a.date = b.date
    /\ Range(a.variables) = Range(b.variables)

\* the datasets two calls returned share no object, and none with the cache
Independent(a, b) ==
    LET mine == {a.obj, heap[a.obj].hourly}
        his  == {b.obj, heap[b.obj].hourly}
        kept == UNION {{cache[i].obj, heap[cache[i].obj].hourly} : i \in 1..Len(cache)}
    IN  /\ mine \cap his = {}
        /\ mine \cap kept = {}
        /\ his \cap kept = {}

\* a returned dataset the caller has not touched still has the value it was returned with
Untouched(r) == ~r.dirty => Value(heap, r.obj) = r.val

\* C1 as stated: two successive fetch_hourly calls for the same request issue
\* exactly one remote request in total, both return equal datasets, and the
\* datasets are independent of each other and of the cache (for the non-empty
\* variable sequences the client accepts).
C1_ExactlyOneRequestForEqualFetches ==
    (/\ Len(hist) = 2
     /\ SameRequest(hist[1].call, hist[2].call)
     /\ hist[1].call.variables # <<>>) =>
        /\ hist[1].reqs + hist[2].reqs = 1
        /\ hist[1].res = "ok" /\ hist[2].res = "ok"
        /\ hist[1].val = hist[2].val
        /\ Independent(hist[1], hist[2])

\* C1 amended: of two successive fetch_hourly calls for the same request, if
\* the first returns a dataset then the second issues no remote request and
\* returns an equal dataset, so that the two calls issue exactly one remote
\* request in total when the key was not cached before the first call and none
\* when it was; the two datasets and the cached one share no object: after the
\* caller mutated one of them the other still has its value and the cache still
\* holds the value that was returned.
C1_SecondEqualFetchIsACacheHit ==
    (Len(hist) = 2 /\ SameRequest(hist[1].call, hist[2].call) /\ hist[1].res = "ok") =>
        /\ hist[2].reqs = 0
        /\ hist[1].reqs + hist[2].reqs = (IF hist[1].hit THEN 0 ELSE 1)
        /\ hist[2].res = "ok"
        /\ hist[1].val = hist[2].val
        /\ Independent(hist[1], hist[2])
        /\ Untouched(hist[1]) /\ Untouched(hist[2])
        /\ LET i == CacheIndex(cache, CacheKey(hist[2].call))
           IN  i # 0 /\ Value(heap, cache[i].obj) = hist[1].val

\* the second call spells the request differently, the first one issued the
\* only request, and the caller has mutated the first dataset
C1_Witness ==
    /\ Len(hist) = 2
    /\ SameRequest(hist[1].call, hist[2].call)
    /\ hist[1].call # hist[2].call
    /\ hist[1].res = "ok" /\ hist[1].reqs = 1
    /\ hist[2].hit
    /\ hist[1].dirty /\ ~hist[2].dirty

\* C4 as stated: fetch_hourly fails with a provider error when no variable is
\* requested (without a remote request), when the request errors, times out or
\* has an HTTP error status, or when the response has no 'hourly' block, and
\* returns the dataset in every other case.
C4_ProviderErrorOrDataset ==
    \A i \in 1..Len(hist) :
        LET r == hist[i]
        IN  IF r.call.variables = <<>>
            THEN r.res = "provider_error" /\ r.reqs = 0
            ELSE IF r.outcome \in {"conn_error", "timeout", "http_error", "no_hourly"}
            THEN r.res = "provider_error"
            ELSE r.res = "ok" /\ r.obj # NoObj

----------------------------------------------------------------------------
(* Specification of a long run of fetches that fills the cache and evicts *)

\* number of distinct keys requested beyond the capacity of the cache
ExtraKeys == 2

\* the first key is fetched again while the cache is nearly empty or once it is full
ProbeEarly == 2

\* the i-th key: latitude i/1000 degree
LruCall(i) == [lat |-> 10 * i, lon |-> 0, date |-> "2024-06-15", variables |-> <<1>>]

LruResponses == {[outcome |-> "hourly", value |-> 1], [outcome |-> "conn_error", value |-> 0]}

\* fetch the next key that was never fetched successfully
FetchFresh ==
    /\ Len(recent) < CacheMaxSize + ExtraKeys
    /\ \E resp \in LruResponses : DoFetch(LruCall(Len(recent) + 1), resp.outcome, resp.value)
    /\ UNCHANGED <<ncalls, concVars, pureVars>>

\* fetch the first key again, early (while at most ProbeEarly keys were
\* fetched) or late (once as many keys were fetched as the cache can hold)
FetchProbe ==
    /\ Len(recent) >= 1
    /\ Len(recent) <= ProbeEarly \/ Len(recent) >= CacheMaxSize
    /\ \E resp \in LruResponses : DoFetch(LruCall(1), resp.outcome, resp.value)
    /\ UNCHANGED <<ncalls, concVars, pureVars>>

NextLRU == FetchFresh \/ FetchProbe

SpecLRU == Init /\ [][NextLRU]_vars

\* the keys of the cache, least recently used first
CachedKeys == [i \in 1..Len(cache) |-> cache[i].key]

\* C3: the cache never holds more than 128 entries; what it holds are the (at
\* most 128) most recently used keys, a hit counting as a use, so a miss on a
\* full cache evicted the least recently used one; and a call for a key that
\* was fetched before and followed by at most 127 other distinct keys is served
\* without a remote request.
C3_BoundedLeastRecentlyUsed ==
    /\ Len(cache) <= 128
    /\ CachedKeys = SubSeq(recent, Len(recent) - Min(128, Len(recent)) + 1, Len(recent))
    /\ \A i \in 1..Len(hist) :
          (hist[i].gap >= 0 /\ hist[i].gap <= 127) =>
              hist[i].reqs = 0 /\ hist[i].res = "ok"

\* the first key is served from a cache that has already evicted another key,
\* after exactly 127 other keys were fetched since its last use
C3_Witness ==
    /\ Len(hist) = 2
    /\ hist[2].call = LruCall(1)
    /\ hist[2].gap = 127
    /\ hist[2].hit
    /\ Len(recent) > 128
    /\ Len(cache) = 128

----------------------------------------------------------------------------
(* Specification of worker threads that call fetch_hourly at the same time.
   run_in_threadpool runs every request on its own worker thread; lru_cache
   looks the key up, calls the function on a miss without holding any lock
   across the call, and stores the result afterwards unless the key was stored
   meanwhile. *)

Threads == {1, 2}

\* two spellings of one request and a request for another key
ConcCalls ==
    {[lat |-> 404001, lon |-> -37000, date |-> "2024-06-15", variables |-> <<1, 2>>],
     [lat |-> 404004, lon |-> -37000, date |-> "2024-06-15", variables |-> <<2, 1, 2>>],
     [lat |-> 404012, lon |-> -37000, date |-> "2024-06-15", variables |-> <<1, 2>>]}

ConcResponses ==
    {[outcome |-> "hourly", value |-> 1], [outcome |-> "hourly", value |-> 2],
     [outcome |-> "conn_error", value |-> 0]}

NoCall == [lat |-> 0, lon |-> 0, date |-> "", variables |-> <<>>]

IdleThread ==
    [pc |-> "idle", call |-> NoCall, raw |-> NoObj, res |-> "none", obj |-> NoObj,
     val |-> <<0, 0>>]

InitConc ==
    /\ InitCache
    /\ threads = [t \in Threads |-> IdleThread]
    /\ issued = <<>>
    /\ InitNoCall

\* objects referenced by the cache, by a thread inside a call or by a caller
LiveConc(h, c, th) ==
    LET tops == ({c[i].obj : i \in 1..Len(c)}
                 \cup {th[t].raw : t \in Threads} \cup {th[t].obj : t \in Threads})
                \ {NoObj}
    IN  tops \cup {h[t].hourly : t \in tops}

\* fetch_hourly up to the cache lookup of the lru_cache wrapper
ThreadCall(t) ==
    /\ threads[t].pc \in {"idle", "done"}
    /\ ncalls < MaxConcCalls
    /\ \E call \in ConcCalls :
          LET i   == CacheIndex(cache, CacheKey(call))
              new == [IdleThread EXCEPT !.call = call]
          IN  IF call.variables = <<>> THEN
                  /\ threads' = [threads EXCEPT ![t] =
                        [new EXCEPT !.pc = "done", !.res = "provider_error"]]
                  /\ cache' = cache
              ELSE IF i # 0 THEN
                  /\ threads' = [threads EXCEPT ![t] =
                        [new EXCEPT !.pc = "copy", !.raw = cache[i].obj]]
                  /\ cache' = CacheTouch(cache, i)
              ELSE
                  /\ threads' = [threads EXCEPT ![t] = [new EXCEPT !.pc = "request"]]
                  /\ cache' = cache
    /\ ncalls' = ncalls + 1
    /\ heap' = [i \in LiveConc(heap, cache', threads') |-> heap[i]]
    /\ UNCHANGED <<hist, recent, issued, pureVars>>

\* the body of _fetch_open_meteo_cached: the remote request and its answer
ThreadRequest(t) ==
    /\ threads[t].pc = "request"
    /\ \E resp \in ConcResponses :
          LET key == CacheKey(threads[t].call)
              raw == AllocDataset(heap, "resp", key, t, resp.value)
          IN  /\ issued' = Append(issued, [key |-> key, outcome |-> resp.outcome])
              /\ IF RemoteResult(resp.outcome) = "data" THEN
                     /\ heap' = raw.heap
                     /\ threads' = [threads EXCEPT ![t].pc = "store", ![t].raw = raw.obj]
                 ELSE
                     /\ heap' = heap
                     /\ threads' = [threads EXCEPT ![t].pc = "done",
                                        ![t].res = RemoteResult(resp.outcome)]
    /\ UNCHANGED <<cache, hist, recent, ncalls, pureVars>>

\* the lru_cache wrapper after the function returned
ThreadStore(t) ==
    /\ threads[t].pc = "store"
    /\ cache' = CacheStore(cache, CacheKey(threads[t].call), threads[t].raw)
    /\ threads' = [threads EXCEPT ![t].pc = "copy"]
    /\ UNCHANGED <<heap, hist, recent, ncalls, issued, pureVars>>

\* return copy.deepcopy(raw)
ThreadCopy(t) ==
    /\ threads[t].pc = "copy"
    /\ LET cp == DeepCopy(heap, threads[t].raw, t)
           th == [threads EXCEPT ![t].pc = "done", ![t].res = "ok", ![t].raw = NoObj,
                                 ![t].obj = cp.obj, ![t].val = Value(cp.heap, cp.obj)]
       IN  /\ threads' = th
           /\ heap' = [i \in LiveConc(cp.heap, cache, th) |-> cp.heap[i]]
    /\ UNCHANGED <<cache, hist, recent, ncalls, issued, pureVars>>

NextConc ==
    \E t \in Threads :
        ThreadCall(t) \/ ThreadRequest(t) \/ ThreadStore(t) \/ ThreadCopy(t)

SpecConc == InitConc /\ [][NextConc]_vars

\* C2 as stated: when worker threads call fetch_hourly concurrently for one
\* cache key that is not cached, at most one remote request is issued for the
\* key (a further request follows only a request that failed), and all callers
\* that get a dataset for the key get equal datasets that share no object.
C2_OneRequestPerKeyUnderConcurrency ==
    /\ \A i, j \in 1..Len(issued) :
          (i < j /\ issued[i].key = issued[j].key) =>
              RemoteResult(issued[i].outcome) # "data"
    /\ \A t, u \in Threads :
          (/\ t # u
           /\ threads[t].res = "ok" /\ threads[u].res = "ok"
           /\ CacheKey(threads[t].call) = CacheKey(threads[u].call)) =>
              /\ threads[t].val = threads[u].val
              /\ {threads[t].obj, heap[threads[t].obj].hourly}
                     \cap {threads[u].obj, heap[threads[u].obj].hourly} = {}

----------------------------------------------------------------------------
(* The model registry: PROVIDERS and resolve_model_name.
   A string is the sequence of its characters. *)

UpperCase ==
    <<"A", "B", "C", "D", "E", "F", "G", "H", "I", "J", "K", "L", "M", "N", "O", "P", "Q", "R", "S", "T", "U", "V", "W", "X", "Y", "Z">>

LowerCase ==
    <<"a", "b", "c", "d", "e", "f", "g", "h", "i", "j", "k", "l", "m", "n", "o", "p", "q", "r", "s", "t", "u", "v", "w", "x", "y", "z">>

Whitespace == {" ", "\t", "\n"}

\* str.lower() on one character
LowerChar(ch) ==
    IF \E i \in 1..Len(UpperCase) : UpperCase[i] = ch
    THEN LowerCase[CHOOSE i \in 1..Len(UpperCase) : UpperCase[i] = ch]
    ELSE ch

\* str.lower()
Lower(text) == [i \in 1..Len(text) |-> LowerChar(text[i])]

\* str.upper() on one character, used to spell the inputs
UpperChar(ch) ==
    IF \E i \in 1..Len(LowerCase) : LowerCase[i] = ch
    THEN UpperCase[CHOOSE i \in 1..Len(LowerCase) : LowerCase[i] = ch]
    ELSE ch

RECURSIVE LStrip(_)
LStrip(text) ==
    IF text # <<>> /\ Head(text) \in Whitespace THEN LStrip(Tail(text)) ELSE text

RECURSIVE RStrip(_)
RStrip(text) ==
    IF text # <<>> /\ text[Len(text)] \in Whitespace
    THEN RStrip(SubSeq(text, 1, Len(text) - 1))
    ELSE text

\* str.strip()
Strip(text) == RStrip(LStrip(text))

HufnagelValley == <<"h", "u", "f", "n", "a", "g", "e", "l", "-", "v", "a", "l", "l", "e", "y">>

Hv57 == <<"h", "v", "5", "7">>

Bufton == <<"b", "u", "f", "t", "o", "n">>

Greenwood == <<"g", "r", "e", "e", "n", "w", "o", "o", "d">>

Auto == <<"a", "u", "t", "o">>

\* the keys of PROVIDERS and the provider function each one is bound to
PROVIDERS ==
    (HufnagelValley :> "_hv57_provider") @@ (Hv57 :> "_hv57_provider")
    @@ (Bufton :> "_bufton_provider") @@ (Greenwood :> "_greenwood_provider")

\* a model argument: a string, or None when not given
Given(text) == [given |-> TRUE, text |-> text]

NotGiven == [given |-> FALSE, text |-> <<>>]

\* resolve_model_name without the strip()
ResolveModelName_NoStrip(model) ==
    LET normalized == Lower(IF model.given THEN model.text ELSE <<>>)
    IN  IF normalized = <<>> \/ normalized = Auto
        THEN [res |-> "ok", key |-> HufnagelValley]
        ELSE IF normalized \notin DOMAIN PROVIDERS
        THEN [res |-> "model_not_found", key |-> <<>>]
        ELSE [res |-> "ok", key |-> normalized]

\* resolve_model_name
ResolveModelName(model) ==
    LET normalized == Lower(Strip(IF model.given THEN model.text ELSE <<>>))
    IN  IF normalized = <<>> \/ normalized = Auto
        THEN [res |-> "ok", key |-> HufnagelValley]
        ELSE IF normalized \notin DOMAIN PROVIDERS
        THEN [res |-> "model_not_found", key |-> <<>>]
        ELSE [res |-> "ok", key |-> normalized]

----------------------------------------------------------------------------
(* Specification of resolve_model_name on spellings of model names *)

\* longest run of whitespace put before and after a name
MaxPad == 1

\* names that are not registered, one of them a registered name with a blank inside
UnknownNames ==
    {<<"u", "n", "k", "n", "o", "w", "n", "-", "m", "o", "d", "e", "l">>, <<"h", "v", " ", "5", "7">>, <<"h", "v", "5">>, <<"a", "u", "t", "o", "s">>}

BaseNames == DOMAIN PROVIDERS \cup {Auto, <<>>} \cup UnknownNames

\* which characters of a name are written in upper case
CaseMasks(n) == {{}, 1..n, {1}, {i \in 1..n : i % 2 = 0}}

Cased(text, mask) ==
    [i \in 1..Len(text) |-> IF i \in mask THEN UpperChar(text[i]) ELSE text[i]]

Pads == UNION {[1..n -> Whitespace] : n \in 0..MaxPad}

\* every spelling of a base name, with the base name it spells
ResolveInputs ==
    {[model |-> Given(pre \o Cased(base, mask) \o post), base |-> base] :
        pre \in Pads, post \in Pads,
        base \in BaseNames, mask \in UNION {CaseMasks(Len(b)) : b \in BaseNames}}
    \cup {[model |-> NotGiven, base |-> <<>>]}

InitResolve ==
    /\ InitCache
    /\ InitNoThreads
    /\ fin \in ResolveInputs
    /\ fout = <<>>

\* resolve_model_name(model)
ResolveFirst ==
    /\ fout = <<>>
    /\ fout' = <<ResolveModelName(fin.model)>>
    /\ UNCHANGED <<fin, cacheVars, concVars>>

\* resolve_model_name applied to the key it returned
ResolveReturned ==
    /\ Len(fout) = 1
    /\ fout[1].res = "ok"
    /\ fout' = Append(fout, ResolveModelName(Given(fout[1].key)))
    /\ UNCHANGED <<fin, cacheVars, concVars>>

NextResolve == ResolveFirst \/ ResolveReturned

SpecResolve == InitResolve /\ [][NextResolve]_vars

\* C5: resolve_model is a case-insensitive, whitespace-trimming lookup: a
\* missing, empty or all-whitespace name and every spelling of "auto" resolve to
\* "hufnagel-valley"; every spelling of a registered name resolves to what the
\* registered name itself resolves to; every other name fails with the
\* model-not-found error; and resolving a returned key returns that key.
C5_ResolveIsCaseAndWhitespaceInsensitive ==
    /\ Len(fout) >= 1 =>
          IF fin.base = <<>> \/ fin.base = Auto
          THEN fout[1] = [res |-> "ok", key |-> HufnagelValley]
          ELSE IF fin.base \in DOMAIN PROVIDERS
          THEN fout[1].res = "ok" /\ fout[1] = ResolveModelName(Given(fin.base))
          ELSE fout[1].res = "model_not_found"
    /\ Len(fout) = 2 => fout[2] = fout[1]

\* a padded upper-case spelling of a registered name has been resolved, and
\* the returned key resolved again
C5_Witness ==
    /\ Len(fout) = 2
    /\ fin.base = Bufton
    /\ fin.model.text = <<" ", "B", "U", "F", "T", "O", "N", "\t">>

\* C6 as stated: resolve_model returns one canonical key per provider: the
\* value returned for the alias " HV57 " equals the value returned for
\* "hufnagel-valley".
C6_AliasResolvesToCanonicalKey ==
    (Len(fout) >= 1 /\ fin.model = Given(<<" ", "H", "V", "5", "7", " ">>)) =>
        fout[1] = ResolveModelName(Given(HufnagelValley))

----------------------------------------------------------------------------
(* The hour resolver: _resolve_hour_index.
   An hour key "YYYY-MM-DDTHH:00" of the day that was fetched is the number
   HH; a timeline element that is not such a string is NotAnHour. *)

NotAnHour == -1

\* hourly_block.get("time"): no entry or null ("missing"), a value that is
\* not a list ("not_list"), or a list
NoTimeline == [kind |-> "missing", items |-> <<>>]

Timeline(items) == [kind |-> "list", items |-> items]

Distance(a, b) == IF a >= b THEN a - b ELSE b - a

\* a resolver that falls back to the nearest hour of the timeline
ResolveHourIndex_Nearest(hourly_block, hour_key) ==
    LET timeline == hourly_block.time
        hours    == {i \in 1..Len(timeline.items) : timeline.items[i] # NotAnHour}
    IN  IF timeline.kind # "list" THEN [res |-> "provider_error", idx |-> 0]
        ELSE IF hours = {} THEN [res |-> "provider_error", idx |-> 0]
        ELSE [res |-> "ok",
              idx |-> (CHOOSE i \in hours : \A j \in hours :
                          \/ Distance(timeline.items[i], hour_key)
                               < Distance(timeline.items[j], hour_key)
                          \/ /\ Distance(timeline.items[i], hour_key)
                                  = Distance(timeline.items[j], hour_key)
                             /\ i <= j) - 1]

\* _resolve_hour_index: the 0-based position of the first element equal to hour_key
ResolveHourIndex(hourly_block, hour_key) ==
    LET timeline == hourly_block.time
    IN  IF timeline.kind # "list" THEN [res |-> "provider_error", idx |-> 0]
        ELSE IF \E i \in 1..Len(timeline.items) : timeline.items[i] = hour_key
        THEN [res |-> "ok",
              idx |-> SetMin({i \in 1..Len(timeline.items) : timeline.items[i] = hour_key}) - 1]
        ELSE [res |-> "provider_error", idx |-> 0]

----------------------------------------------------------------------------
(* Specification of _resolve_hour_index on short timelines *)

MaxTimeline == 3

TimelineItems == {NotAnHour, 10, 11, 12, 14}

HourKeys == {11, 12, 13}

HourInputs ==
    {[block |-> [time |-> t], hour_key |-> k] :
        t \in {NoTimeline, [kind |-> "not_list", items |-> <<>>]}
              \cup {Timeline(items) : items \in UNION {[1..n -> TimelineItems] : n \in 0..MaxTimeline}},
        k \in HourKeys}

InitHour ==
    /\ InitCache
    /\ InitNoThreads
    /\ fin \in HourInputs
    /\ fout = <<>>

ResolveHour ==
    /\ fout = <<>>
    /\ fout' = <<ResolveHourIndex(fin.block, fin.hour_key)>>
    /\ UNCHANGED <<fin, cacheVars, concVars>>

NextHour == ResolveHour

SpecHour == InitHour /\ [][NextHour]_vars

\* C8: resolve_hour_index returns the first index i with timeline[i] exactly
\* equal to the hour key, and fails with a provider error when the block has no
\* 'time' entry, when 'time' is not a list, or when no element equals the hour
\* key; it never returns a nearest hour.
C8_ExactHourOrProviderError ==
    Len(fout) = 1 =>
        LET t == fin.block.time
        IN  IF t.kind = "list" /\ (\E i \in 1..Len(t.items) : t.items[i] = fin.hour_key)
            THEN /\ fout[1].res = "ok"
                 /\ t.items[fout[1].idx + 1] = fin.hour_key
                 /\ \A j \in 1..fout[1].idx : t.items[j] # fin.hour_key
            ELSE fout[1].res = "provider_error"

\* the hour key occurs twice, after another hour, and the first position is returned
C8_Witness ==
    /\ Len(fout) = 1
    /\ fin.block.time = Timeline(<<11, 12, 12>>)
    /\ fin.hour_key = 12
    /\ fout[1] = [res |-> "ok", idx |-> 1]

----------------------------------------------------------------------------
(* The summary integrator: _calculate_summary_from_layers.
   A real number is either a literal, an integer count of thousandths of its
   unit (Lit), or an uninterpreted term of the code's formula (Term), which
   stands for a positive value; altitudes are plain integers in metres. *)

Lit(n) == [k |-> "lit", v |-> n, args |-> <<>>]

Term(name, args) == [k |-> name, v |-> 0, args |-> args]

IsZero(x) == x.k = "lit" /\ x.v = 0

\* AtmosphericLayer; alt_km holds the altitude in metres (alt_km * 1000), an integer
Layer(alt, cn2, wind, temperature, humidity) ==
    [alt_km |-> alt, cn2 |-> cn2, wind_mps |-> wind, temperature_k |-> temperature,
     humidity |-> humidity]

\* AtmosphericSummary(): every field defaults to None
EmptySummary ==
    [r0_zenith |-> None, fG_zenith |-> None, theta0_zenith |-> None, wind_rms |-> None,
     loss_aod_db |-> None, loss_abs_db |-> None, coherence_time_ms |-> None,
     scintillation_index |-> None]

\* the layers that carry a Cn2 value, in the order given
WithCn2(layers) == SelectSeq(layers, LAMBDA l : l.cn2 # None)

\* np.argsort(heights): the positions by ascending height
RECURSIVE ArgSort(_, _)
ArgSort(heights, todo) ==
    IF todo = {} THEN <<>>
    ELSE LET i == CHOOSE a \in todo : \A b \in todo :
                      heights[a] < heights[b] \/ (heights[a] = heights[b] /\ a <= b)
         IN  <<i>> \o ArgSort(heights, todo \ {i})

\* fallback_wind or 15.0
FallbackOrDefault(fallback_wind) ==
    IF fallback_wind = None \/ IsZero(fallback_wind[1]) THEN Lit(15000) ELSE fallback_wind[1]

\* the summary returned when fewer than 2 layers carry Cn2
DefaultSummary(fallback_wind, base_loss_aod, base_loss_abs) ==
    [EmptySummary EXCEPT
        !.r0_zenith = Some(Lit(100)),
        !.fG_zenith = Some(Lit(30000)),
        !.theta0_zenith = Some(Lit(1500)),
        !.wind_rms = Some(FallbackOrDefault(fallback_wind)),
        !.loss_aod_db = Some(base_loss_aod),
        !.loss_abs_db = Some(base_loss_abs)]

\* the summary integrated over at least 2 layers; the integrals and powers
\* are terms over the sorted samples
IntegratedSummary(used, wavelength_nm, fallback_wind, base_loss_aod, base_loss_abs) ==
    LET heights == [i \in 1..Len(used) |-> used[i].alt_km]
        values  == [i \in 1..Len(used) |->
                      IF used[i].wind_mps # None THEN used[i].wind_mps ELSE fallback_wind]
        order   == ArgSort(heights, 1..Len(used))
        hs      == [i \in 1..Len(order) |-> heights[order[i]]]
        cn2     == [i \in 1..Len(order) |-> used[order[i]].cn2[1]]
        winds   == [i \in 1..Len(order) |->
                      IF values[order[i]] # None THEN values[order[i]][1] ELSE Lit(0)]
        I0      == Term("trapz_cn2", <<cn2, hs>>)
        r0      == Term("r0", <<wavelength_nm, I0>>)
        rms     == IF \E i \in 1..Len(winds) : ~IsZero(winds[i])
                   THEN Term("rms", <<winds>>)
                   ELSE FallbackOrDefault(fallback_wind)
    IN  [EmptySummary EXCEPT
            !.r0_zenith = Some(r0),
            !.fG_zenith = Some(Term("fG", <<wavelength_nm, cn2, winds, hs>>)),
            !.theta0_zenith = Some(Term("theta0", <<wavelength_nm, cn2, hs>>)),
            !.wind_rms = Some(rms),
            !.loss_aod_db = Some(Term("loss_aod", <<base_loss_aod, I0>>)),
            !.loss_abs_db = Some(Term("loss_abs", <<base_loss_abs, I0>>)),
            !.coherence_time_ms = Some(Term("tau0", <<r0, rms>>))]

\* the integrator with the threshold at 1 layer instead of 2
CalculateSummaryFromLayers_OneLayer(layers, wavelength_nm, fallback_wind, base_loss_aod, base_loss_abs) ==
    LET used == WithCn2(layers)
    IN  IF Len(used) < 1
        THEN [res |-> "ok",
              summary |-> DefaultSummary(fallback_wind, base_loss_aod, base_loss_abs)]
        ELSE IF wavelength_nm = 0
        THEN [res |-> "other_error", summary |-> EmptySummary]
        ELSE [res |-> "ok",
              summary |-> IntegratedSummary(used, wavelength_nm, fallback_wind,
                                            base_loss_aod, base_loss_abs)]

\* _calculate_summary_from_layers; k = 2 pi / (wavelength_nm * 1e-9) divides by
\* zero for a zero wavelength
CalculateSummaryFromLayers(layers, wavelength_nm, fallback_wind, base_loss_aod, base_loss_abs) ==
    LET used == WithCn2(layers)
    IN  IF Len(used) < 2
        THEN [res |-> "ok",
              summary |-> DefaultSummary(fallback_wind, base_loss_aod, base_loss_abs)]
        ELSE IF wavelength_nm = 0
        THEN [res |-> "other_error", summary |-> EmptySummary]
        ELSE [res |-> "ok",
              summary |-> IntegratedSummary(used, wavelength_nm, fallback_wind,
                                            base_loss_aod, base_loss_abs)]

----------------------------------------------------------------------------
(* Specification of _calculate_summary_from_layers on short profiles *)

MaxLayers == 3

\* a layer at the ground or at 2 km, with or without Cn2 and wind
SummaryLayers ==
    {Layer(alt, s[1], s[2], None, None) :
        alt \in {0, 2000},
        s \in {<<None, None>>, <<None, Some(Lit(10000))>>, <<Some(Lit(3)), None>>,
               <<Some(Lit(3)), Some(Lit(0))>>, <<Some(Lit(3)), Some(Lit(10000))>>}}

\* wavelength in nm with the base losses passed along
SummarySettings ==
    {[wavelength_nm |-> 810, base_loss_aod |-> Lit(200), base_loss_abs |-> Lit(100)],
     [wavelength_nm |-> 1550, base_loss_aod |-> Lit(250), base_loss_abs |-> Lit(120)],
     [wavelength_nm |-> 0, base_loss_aod |-> Lit(220), base_loss_abs |-> Lit(110)]}

SummaryFallbacks == {None, Some(Lit(0)), Some(Lit(10000))}

SummaryInputs ==
    {[layers |-> ls, settings |-> st, fallback_wind |-> fw] :
        ls \in UNION {[1..n -> SummaryLayers] : n \in 0..MaxLayers},
        st \in SummarySettings, fw \in SummaryFallbacks}

InitSummary ==
    /\ InitCache
    /\ InitNoThreads
    /\ fin \in SummaryInputs
    /\ fout = <<>>

Summarize ==
    /\ fout = <<>>
    /\ fout' = <<CalculateSummaryFromLayers(fin.layers, fin.settings.wavelength_nm,
                    fin.fallback_wind, fin.settings.base_loss_aod,
                    fin.settings.base_loss_abs)>>
    /\ UNCHANGED <<fin, cacheVars, concVars>>

NextSummary == Summarize

SpecSummary == InitSummary /\ [][NextSummary]_vars

\* number of layers of the input that carry a Cn2 value
Cn2Count(layers) == Cardinality({i \in 1..Len(layers) : layers[i].cn2 # None})

\* C9: given fewer than 2 layers that carry Cn2, the integrator raises no error
\* and returns r0 = 0.1, isoplanatic angle = 1.5 and both losses equal to the
\* supplied base losses, whatever the wavelength and the contents of the layers.
C9_DegradedDefaultSummary ==
    (Len(fout) = 1 /\ Cn2Count(fin.layers) < 2) =>
        /\ fout[1].res = "ok"
        /\ fout[1].summary.r0_zenith = Some(Lit(100))
        /\ fout[1].summary.theta0_zenith = Some(Lit(1500))
        /\ fout[1].summary.loss_aod_db = Some(fin.settings.base_loss_aod)
        /\ fout[1].summary.loss_abs_db = Some(fin.settings.base_loss_abs)

\* one layer with Cn2 among layers without, and a zero wavelength
C9_Witness ==
    /\ Len(fout) = 1
    /\ Len(fin.layers) = 3
    /\ Cn2Count(fin.layers) = 1
    /\ fin.settings.wavelength_nm = 0
    /\ fout[1].res = "ok"
    /\ fout[1].summary.r0_zenith = Some(Lit(100))

\* C10 as stated: given fewer than 2 layers that carry Cn2, the summary has a
\* coherence time, and its wind and coherence time are those of a 15 m/s wind
\* with r0 = 0.1 m (0.314 * 0.1 / 15 s = 2.093 ms), whatever the fallback wind.
C10_DefaultCoherenceTimeFromFifteen ==
    (Len(fout) = 1 /\ Cn2Count(fin.layers) < 2) =>
        /\ fout[1].summary.coherence_time_ms # None
        /\ fout[1].summary.coherence_time_ms = Some(Lit(2093))
        /\ fout[1].summary.wind_rms = Some(Lit(15000))

----------------------------------------------------------------------------
(* The layer builder, the turbulence providers and build_profile.
   Winds are literals in mm/s, temperatures in thousandths of a degree,
   humidities in thousandths of a percent, Cn2 strengths in units of 1e-18;
   a provider works on what client.fetch_hourly gave back: [res, hourly]
   with hourly = [time, series], series mapping a variable name to its list
   of per-hour values (None for null). *)

Abs(x) == IF x >= 0 THEN x ELSE -x

\* math.sqrt(u ** 2 + v ** 2), to the thousandth below
Norm(u, v) ==
    CHOOSE r \in Max(Abs(u), Abs(v))..(Abs(u) + Abs(v)) :
        r * r <= u * u + v * v /\ u * u + v * v < (r + 1) * (r + 1)

\* sqrt((a ** 2 + b ** 2 + c ** 2) / 3), to the thousandth below
Rms3(a, b, c) ==
    LET m == (a * a + b * b + c * c) \div 3
    IN  CHOOSE r \in 0..Max(a, Max(b, c)) : r * r <= m /\ m < (r + 1) * (r + 1)

\* is_day with the evening bound included
IsDay_UntilEighteen(query) == 6 <= query.timestamp.hour /\ query.timestamp.hour <= 18

\* AtmosphereQuery.is_day
IsDay(query) == 6 <= query.timestamp.hour /\ query.timestamp.hour < 18

\* AtmosphereQuery.ground_cn2
GroundCn2(query) == IF IsDay(query) THEN query.ground_cn2_day ELSE query.ground_cn2_night

\* AtmosphereQuery.hour_key: the date and the hour of the timestamp, minutes dropped
HourKey(query) == query.timestamp.day * 24 + query.timestamp.hour

\* hourly.get(name, [None])[idx]: an IndexError when the list is too short
ReadSample(hourly, name, idx) ==
    LET series == IF name \in DOMAIN hourly.series THEN hourly.series[name] ELSE <<None>>
    IN  IF idx + 1 > Len(series) THEN [res |-> "other_error", v |-> None]
        ELSE [res |-> "ok", v |-> series[idx + 1]]

\* a wind speed that reads a null component as 0
WindSpeed_NullAsZero(hourly, idx, uname, vname) ==
    LET u == ReadSample(hourly, uname, idx)
        v == ReadSample(hourly, vname, idx)
    IN  IF u.res # "ok" \/ v.res # "ok" THEN [res |-> "other_error", w |-> 0]
        ELSE [res |-> "ok", w |-> Norm(IF u.v = None THEN 0 ELSE u.v[1].v,
                                       IF v.v = None THEN 0 ELSE v.v[1].v)]

\* the wind speed of one pressure level from its u and v samples
WindSpeed(hourly, idx, uname, vname) ==
    LET u == ReadSample(hourly, uname, idx)
        v == ReadSample(hourly, vname, idx)
    IN  IF u.res # "ok" \/ v.res # "ok" THEN [res |-> "other_error", w |-> 0]
        ELSE IF u.v = None \/ v.v = None THEN [res |-> "provider_error", w |-> 0]
        ELSE [res |-> "ok", w |-> Norm(u.v[1].v, v.v[1].v)]

\* _create_layers_from_samples that skips the ground altitude
CreateLayersFromSamples_SkipGround(altitudes, cn2_func, wind_profile, temperature_profile, humidity_profile) ==
    [i \in 1..(Len(altitudes) - 1) |->
        Layer(altitudes[i + 1], Some(cn2_func[altitudes[i + 1]]),
              Some(wind_profile[altitudes[i + 1]]),
              temperature_profile[altitudes[i + 1]], humidity_profile[altitudes[i + 1]])]

\* _create_layers_from_samples; each profile function is given as its values
\* on the altitudes, one that was not supplied as the function that is None
CreateLayersFromSamples(altitudes, cn2_func, wind_profile, temperature_profile, humidity_profile) ==
    [i \in 1..Len(altitudes) |->
        Layer(altitudes[i], Some(cn2_func[altitudes[i]]), Some(wind_profile[altitudes[i]]),
              temperature_profile[altitudes[i]], humidity_profile[altitudes[i]])]

\* a profile function that was not supplied
NoProfile(altitudes) == [h \in Range(altitudes) |-> None]

\* _clean_dict over a dict whose values are optional
CleanDict(d) == [k \in {x \in DOMAIN d : d[x] # None} |-> d[k][1]]

\* dataclasses.asdict of a layer
LayerAsDict(l) ==
    [alt_km |-> Some(l.alt_km), cn2 |-> l.cn2, wind_mps |-> l.wind_mps,
     temperature_k |-> l.temperature_k, humidity |-> l.humidity]

\* to_dict that serializes the layers without _clean_dict
ToDict_LayersUncleaned(profile) ==
    [model |-> profile.model,
     status |-> profile.status,
     timestamp |-> profile.timestamp,
     summary |-> CleanDict(profile.summary),
     layers |-> [i \in 1..Len(profile.layers) |-> LayerAsDict(profile.layers[i])],
     sources |-> profile.sources,
     metadata |-> profile.metadata]

\* AtmosphericProfile.to_dict
ToDict(profile) ==
    [model |-> profile.model,
     status |-> profile.status,
     timestamp |-> profile.timestamp,
     summary |-> CleanDict(profile.summary),
     layers |-> [i \in 1..Len(profile.layers) |-> CleanDict(LayerAsDict(profile.layers[i]))],
     sources |-> profile.sources,
     metadata |-> profile.metadata]

\* a provider or build_profile raising: no AtmosphericProfile (raw), no dict
Failure(res, provider) ==
    [res |-> res, provider |-> provider, profile |-> <<>>, raw |-> <<>>]

\* the end of every provider: the summary raised, or the AtmosphericProfile
\* (raw) is returned, which build_profile serializes with to_dict
Finish(provider, model, query, variables, layers, summary, scintillation, metadata) ==
    LET object == [model |-> model, status |-> "ok", timestamp |-> query.timestamp,
                   summary |-> [summary.summary EXCEPT !.scintillation_index = scintillation],
                   layers |-> layers,
                   sources |-> [provider |-> "Open-Meteo forecast", variables |-> variables],
                   metadata |-> metadata]
    IN  IF summary.res # "ok" THEN Failure(summary.res, provider)
        ELSE [res |-> "ok", provider |-> provider, profile |-> ToDict(object),
              raw |-> object]

Hv57Altitudes == <<0, 200, 500, 1000, 2000, 5000, 10000, 15000, 20000>>

Hv57Variables == <<"wind_u_component_300hPa", "wind_v_component_300hPa">>

\* _hv57_provider
Hv57Provider(query, fetched) ==
    LET name == "_hv57_provider"
        hour == ResolveHourIndex(fetched.hourly, HourKey(query))
        wind == WindSpeed(fetched.hourly, hour.idx, Hv57Variables[1], Hv57Variables[2])
        W    == Max(wind.w, 5000)
        A    == Max(GroundCn2(query), 10)
        layers == CreateLayersFromSamples(Hv57Altitudes,
                      [h \in Range(Hv57Altitudes) |-> Term("cn2_hv", <<h, W, A>>)],
                      [h \in Range(Hv57Altitudes) |-> Term("wind_hv", <<h, W>>)],
                      NoProfile(Hv57Altitudes), NoProfile(Hv57Altitudes))
    IN  IF fetched.res # "ok" THEN Failure(fetched.res, name)
        ELSE IF hour.res # "ok" THEN Failure(hour.res, name)
        ELSE IF wind.res # "ok" THEN Failure(wind.res, name)
        ELSE Finish(name, HufnagelValley, query, Hv57Variables, layers,
                 CalculateSummaryFromLayers(layers, query.wavelength_nm, Some(Lit(W)),
                                            Lit(200), Lit(100)),
                 None,
                 [daytime |-> Some(IsDay(query)),
                  wavelength_nm |-> Some(query.wavelength_nm),
                  ground_cn2 |-> Some(GroundCn2(query)),
                  wind_speed_300hPa |-> Some(Lit(W))])

BuftonAltitudes == <<0, 250, 500, 1000, 2000, 3000, 5000, 8000, 12000>>

BuftonVariables ==
    <<"wind_u_component_300hPa", "wind_v_component_300hPa",
      "wind_u_component_500hPa", "wind_v_component_500hPa",
      "wind_u_component_850hPa", "wind_v_component_850hPa",
      "temperature_850hPa">>

\* _bufton_provider
BuftonProvider(query, fetched) ==
    LET name == "_bufton_provider"
        hourly == fetched.hourly
        hour == ResolveHourIndex(hourly, HourKey(query))
        w300 == WindSpeed(hourly, hour.idx, BuftonVariables[1], BuftonVariables[2])
        w500 == WindSpeed(hourly, hour.idx, BuftonVariables[3], BuftonVariables[4])
        w850 == WindSpeed(hourly, hour.idx, BuftonVariables[5], BuftonVariables[6])
        temp == ReadSample(hourly, BuftonVariables[7], hour.idx)
        lapse == IF temp.v = None THEN Lit(800) ELSE Term("lapse_correction", <<temp.v[1]>>)
        A    == Max(GroundCn2(query), 10)
        shear == Max(500, Min(2500, Abs(w500.w - w850.w) \div 10))
        wind_profile == [h \in Range(BuftonAltitudes) |->
                     IF h < 500 THEN Lit(Max(2000, (w850.w * 6) \div 10))
                     ELSE IF h < 1500 THEN Lit((w850.w + w500.w) \div 2)
                     ELSE IF h < 6000 THEN Lit(w500.w)
                     ELSE Lit(w300.w)]
        temperature_profile == [h \in Range(BuftonAltitudes) |->
                     IF temp.v = None THEN None
                     ELSE Some(Lit(temp.v[1].v + 273150 - (65 * (h - 1500)) \div 10))]
        layers == CreateLayersFromSamples(BuftonAltitudes,
                      [h \in Range(BuftonAltitudes) |-> Term("cn2_bufton", <<h, A, shear, lapse>>)],
                      wind_profile, temperature_profile, NoProfile(BuftonAltitudes))
    IN  IF fetched.res # "ok" THEN Failure(fetched.res, name)
        ELSE IF hour.res # "ok" THEN Failure(hour.res, name)
        ELSE IF w300.res # "ok" THEN Failure(w300.res, name)
        ELSE IF w500.res # "ok" THEN Failure(w500.res, name)
        ELSE IF w850.res # "ok" THEN Failure(w850.res, name)
        ELSE IF temp.res # "ok" THEN Failure(temp.res, name)
        ELSE Finish(name, Bufton, query, BuftonVariables, layers,
                 CalculateSummaryFromLayers(layers, query.wavelength_nm,
                     Some(Lit(Rms3(w300.w, w500.w, w850.w))), Lit(250), Lit(120)),
                 Some(Lit(Min(1500, 300 + shear \div 5))),
                 [daytime |-> Some(IsDay(query)),
                  wavelength_nm |-> Some(query.wavelength_nm),
                  ground_cn2 |-> Some(GroundCn2(query)),
                  wind_speed |-> Some([hPa300 |-> Lit(w300.w), hPa500 |-> Lit(w500.w),
                                       hPa850 |-> Lit(w850.w)]),
                  temperature_850hPa_K |->
                      IF temp.v = None THEN None ELSE Some(Lit(temp.v[1].v + 273150))])

GreenwoodAltitudes == <<0, 500, 1500, 3000, 6000, 9000, 12000, 16000>>

GreenwoodVariables ==
    <<"wind_u_component_200hPa", "wind_v_component_200hPa",
      "wind_u_component_300hPa", "wind_v_component_300hPa",
      "temperature_200hPa", "relative_humidity_700hPa">>

\* _greenwood_provider
GreenwoodProvider(query, fetched) ==
    LET name == "_greenwood_provider"
        hourly == fetched.hourly
        hour == ResolveHourIndex(hourly, HourKey(query))
        w200 == WindSpeed(hourly, hour.idx, GreenwoodVariables[1], GreenwoodVariables[2])
        w300 == WindSpeed(hourly, hour.idx, GreenwoodVariables[3], GreenwoodVariables[4])
        temp == ReadSample(hourly, GreenwoodVariables[5], hour.idx)
        hum  == ReadSample(hourly, GreenwoodVariables[6], hour.idx)
        A    == Max(GroundCn2(query), 5)
        high == Max(w200.w, w300.w)
        factor == IF hum.v = None THEN 1000
                  ELSE 1000 + Max(0, (hum.v[1].v - 40000) \div 200)
        wind_profile == [h \in Range(GreenwoodAltitudes) |->
                     IF h < 2000 THEN Lit(Max(3000, w300.w \div 2))
                     ELSE IF h < 6000 THEN Lit((w300.w + w200.w) \div 2)
                     ELSE Lit(high)]
        temperature_profile == [h \in Range(GreenwoodAltitudes) |->
                     IF temp.v = None THEN None
                     ELSE Some(Lit(temp.v[1].v + 273150 - 3 * (h - 12000)))]
        humidity_profile == [h \in Range(GreenwoodAltitudes) |->
                     IF hum.v = None THEN None
                     ELSE IF h < 3000 THEN Some(hum.v[1])
                     ELSE Some(Term("humidity_decay", <<hum.v[1], h>>))]
        layers == CreateLayersFromSamples(GreenwoodAltitudes,
                      [h \in Range(GreenwoodAltitudes) |-> Term("cn2_greenwood", <<h, A, factor>>)],
                      wind_profile, temperature_profile, humidity_profile)
    IN  IF fetched.res # "ok" THEN Failure(fetched.res, name)
        ELSE IF hour.res # "ok" THEN Failure(hour.res, name)
        ELSE IF w200.res # "ok" THEN Failure(w200.res, name)
        ELSE IF w300.res # "ok" THEN Failure(w300.res, name)
        ELSE IF temp.res # "ok" THEN Failure(temp.res, name)
        ELSE IF hum.res # "ok" THEN Failure(hum.res, name)
        ELSE Finish(name, Greenwood, query, GreenwoodVariables, layers,
                 CalculateSummaryFromLayers(layers, query.wavelength_nm, Some(Lit(high)),
                                            Lit(220), Lit(110)),
                 Some(Lit(Min(1800, 350 + factor \div 4))),
                 [daytime |-> Some(IsDay(query)),
                  wavelength_nm |-> Some(query.wavelength_nm),
                  ground_cn2 |-> Some(GroundCn2(query)),
                  wind_speed |-> Some([hPa200 |-> Lit(w200.w), hPa300 |-> Lit(w300.w)]),
                  humidity_700hPa_percent |-> hum.v])

\* calling the provider function a key of PROVIDERS is bound to
RunProvider(provider, query, fetched) ==
    IF provider = "_hv57_provider" THEN Hv57Provider(query, fetched)
    ELSE IF provider = "_bufton_provider" THEN BuftonProvider(query, fetched)
    ELSE GreenwoodProvider(query, fetched)

\* build_profile, with the alias bound to another provider
BuildProfile_AliasElsewhere(query, fetched) ==
    LET resolved == ResolveModelName(query.model)
    IN  IF resolved.res # "ok" THEN Failure(resolved.res, "none")
        ELSE IF resolved.key = Hv57 THEN RunProvider("_bufton_provider", query, fetched)
        ELSE RunProvider(PROVIDERS[resolved.key], query, fetched)

\* build_profile; fetched is what the client returns for the provider's fetch
BuildProfile(query, fetched) ==
    LET resolved == ResolveModelName(query.model)
    IN  IF resolved.res # "ok" THEN Failure(resolved.res, "none")
        ELSE RunProvider(PROVIDERS[resolved.key], query, fetched)

----------------------------------------------------------------------------
(* Specification of build_profile: one query and one answer of the data
   source, the profile built for one model name after another *)

\* number of builds over the same query and data
MaxProfiles == 2

ProfileModels ==
    {NotGiven, Given(<<>>), Given(Auto), Given(Hv57), Given(HufnagelValley),
     Given(<<" ", "H", "V", "5", "7", " ">>), Given(Bufton), Given(Greenwood),
     Given(<<"h", "v", "5">>)}

\* queries at noon and in the evening of day 0; the model is set per build
ProfileQueries ==
    {[lat |-> 40400, lon |-> -3700,
      timestamp |-> [day |-> 0, hour |-> h, minute |-> 30],
      model |-> NotGiven,
      ground_cn2_day |-> 50000, ground_cn2_night |-> 5,
      wavelength_nm |-> w] : h \in {12, 20}, w \in {810, 0}}

WindSamples == {Some(Lit(4000)), Some(Lit(0)), None}

\* the 300 hPa wind series, the value of the second hour chosen
Series300(u, v) ==
    ("wind_u_component_300hPa" :> <<Some(Lit(1000)), u>>)
    @@ ("wind_v_component_300hPa" :> <<Some(Lit(1000)), v>>)

\* the series of the other levels
SeriesOther ==
    ("wind_u_component_200hPa" :> <<None, Some(Lit(3000))>>)
    @@ ("wind_v_component_200hPa" :> <<None, Some(Lit(4000))>>)
    @@ ("wind_u_component_500hPa" :> <<None, Some(Lit(8000))>>)
    @@ ("wind_v_component_500hPa" :> <<None, Some(Lit(6000))>>)
    @@ ("wind_u_component_850hPa" :> <<None, Some(Lit(0))>>)
    @@ ("wind_v_component_850hPa" :> <<None, Some(Lit(2000))>>)
    @@ ("temperature_850hPa" :> <<None, Some(Lit(10000))>>)
    @@ ("temperature_200hPa" :> <<None, None>>)
    @@ ("relative_humidity_700hPa" :> <<None, Some(Lit(60000))>>)

\* the other levels with a null wind component at 500 hPa in the second hour
\* and a temperature at 200 hPa
SeriesNullWind ==
    ("wind_v_component_500hPa" :> <<None, None>>)
    @@ ("temperature_200hPa" :> <<None, Some(Lit(-55000))>>) @@ SeriesOther

\* the other levels with null temperature and humidity samples
SeriesNoOptional ==
    ("temperature_850hPa" :> <<None, None>>)
    @@ ("relative_humidity_700hPa" :> <<None, None>>) @@ SeriesOther

\* the other levels with a null wind component at 200 hPa
SeriesNull200 == ("wind_u_component_200hPa" :> <<None, None>>) @@ SeriesOther

\* answers of client.fetch_hourly: an error, or a dataset whose hourly block
\* has no timeline, or lists hours 11 and 12 of day 0 (with one series too
\* short among them), or lists hours 12 and 13
ProfileData ==
    {[res |-> "provider_error", hourly |-> [time |-> NoTimeline, series |-> <<>>]],
     [res |-> "ok", hourly |-> [time |-> NoTimeline,
                                series |-> Series300(Some(Lit(4000)), Some(Lit(0)))]]}
    \cup {[res |-> "ok", hourly |-> [time |-> Timeline(<<11, 12>>), series |-> s]] :
            s \in {Series300(u, v) : u \in WindSamples, v \in WindSamples}
                  \cup {Series300(u, v) @@ o : u \in WindSamples, v \in WindSamples,
                           o \in {SeriesOther, SeriesNullWind, SeriesNoOptional, SeriesNull200}}
                  \cup {"wind_u_component_300hPa" :> <<Some(Lit(1000))>>}}
    \cup {[res |-> "ok", hourly |-> [time |-> Timeline(<<12, 13>>), series |-> s]] :
            s \in {Series300(Some(Lit(4000)), None),
                   Series300(Some(Lit(4000)), None) @@ SeriesOther}}

\* the minutes around sunrise and sunset as the query sees them
DayTimes ==
    {[day |-> 0, hour |-> 5, minute |-> 59], [day |-> 0, hour |-> 6, minute |-> 0],
     [day |-> 0, hour |-> 17, minute |-> 59], [day |-> 0, hour |-> 18, minute |-> 0]}

\* a dataset that has the hours 5, 6, 17 and 18 with every sample present
DayData ==
    [res |-> "ok",
     hourly |-> [time |-> Timeline(<<5, 6, 17, 18>>),
                 series |-> [name \in Range(BuftonVariables) \cup Range(GreenwoodVariables) |->
                               [i \in 1..4 |-> Some(Lit(1000 * i))]]]]

\* queries at these times, the ground strength of the night below the floor
\* the providers clamp it to
DayInputs ==
    {[query |-> [lat |-> 40400, lon |-> -3700, timestamp |-> t, model |-> NotGiven,
                 ground_cn2_day |-> 50000, ground_cn2_night |-> 5, wavelength_nm |-> 810],
      fetched |-> DayData] : t \in DayTimes}

ProfileInputs ==
    {[query |-> q, fetched |-> d] : q \in ProfileQueries, d \in ProfileData} \cup DayInputs

InitProfile ==
    /\ InitCache
    /\ InitNoThreads
    /\ fin \in ProfileInputs
    /\ fout = <<>>

\* build_profile(query) with query.model = m
BuildProfileCall ==
    /\ Len(fout) < MaxProfiles
    /\ \E m \in ProfileModels :
          fout' = Append(fout, [model |-> m,
                                out |-> BuildProfile([fin.query EXCEPT !.model = m],
                                                     fin.fetched)])
    /\ UNCHANGED <<fin, cacheVars, concVars>>

NextProfile == BuildProfileCall

SpecProfile == InitProfile /\ [][NextProfile]_vars

\* the spellings the claim is about
HufnagelValleyNames == {Given(Hv57), Given(HufnagelValley), Given(<<>>), Given(Auto)}

\* C7: for any query and any data returned by the data source, build_profile
\* with model "hv57", "hufnagel-valley", "" and "auto" run the same provider,
\* the Hufnagel-Valley one, and end the same way: with the same error, or with
\* identical profiles whose model field is "hufnagel-valley" and whose status
\* is "ok".
C7_AliasBuildsTheSameProfile ==
    \A i, j \in 1..Len(fout) :
        (fout[i].model \in HufnagelValleyNames /\ fout[j].model \in HufnagelValleyNames) =>
            /\ fout[i].out.provider = "_hv57_provider"
            /\ fout[i].out = fout[j].out
            /\ fout[i].out.res = "ok" =>
                  /\ fout[i].out.profile.model = HufnagelValley
                  /\ fout[i].out.profile.status = "ok"

\* a profile of nine layers has been built under "hv57" and then under
\* "hufnagel-valley", from data that also carries the other levels
C7_Witness ==
    /\ Len(fout) = 2
    /\ fout[1].model = Given(Hv57)
    /\ fout[2].model = Given(HufnagelValley)
    /\ "temperature_850hPa" \in DOMAIN fin.fetched.hourly.series
    /\ fout[1].out.res = "ok"
    /\ fout[2].out.res = "ok"
    /\ Len(fout[1].out.profile.layers) = 9
    /\ fout[2].out.profile.model = HufnagelValley

\* the builds that returned a profile
Built == {i \in 1..Len(fout) : fout[i].out.res = "ok"}

LayerOptionalKeys == {"cn2", "wind_mps", "temperature_k", "humidity"}

\* C11: in every serialized profile the summary and each layer contain
\* exactly the attributes whose value is present in the profile object, with
\* that value: a null attribute never appears as a key, and a present one
\* (0 included) always appears.
C11_SerializedOmitsExactlyTheAbsent ==
    \A i \in Built :
        LET d == fout[i].out.profile
            o == fout[i].out.raw
        IN  /\ DOMAIN d.summary = {k \in DOMAIN o.summary : o.summary[k] # None}
            /\ \A k \in DOMAIN d.summary : d.summary[k] = o.summary[k][1]
            /\ Len(d.layers) = Len(o.layers)
            /\ \A n \in 1..Len(o.layers) :
                  /\ DOMAIN d.layers[n] =
                        {"alt_km"} \cup {k \in LayerOptionalKeys : o.layers[n][k] # None}
                  /\ d.layers[n].alt_km = o.layers[n].alt_km
                  /\ \A k \in DOMAIN d.layers[n] \ {"alt_km"} :
                        d.layers[n][k] = o.layers[n][k][1]

\* a Bufton profile built without a temperature sample and with no wind at
\* 300 hPa: the top layer keeps its wind of 0 and has no temperature, the
\* ground layer keeps its altitude of 0, and the summary has no null to drop
\* while a Hufnagel-Valley summary drops its scintillation index
C11_Witness ==
    /\ Len(fout) = 2
    /\ Built = {1, 2}
    /\ fout[1].out.provider = "_bufton_provider"
    /\ fout[1].out.profile.layers[9].wind_mps = Lit(0)
    /\ "temperature_k" \notin DOMAIN fout[1].out.profile.layers[9]
    /\ fout[1].out.profile.layers[1].alt_km = 0
    /\ fout[2].out.provider = "_hv57_provider"
    /\ "scintillation_index" \notin DOMAIN fout[2].out.profile.summary
    /\ "r0_zenith" \in DOMAIN fout[2].out.profile.summary

\* C12 as stated: whenever build_profile succeeds, the serialized profile has
\* no key whose value is null, the metadata record included (the summary and
\* the layers carry no null by C11, and the sources record has none).
C12_NoNullInSerializedProfile ==
    \A i \in Built :
        \A k \in DOMAIN fout[i].out.profile.metadata :
            fout[i].out.profile.metadata[k] # None

\* the ladders of the three providers, in metres
Ladders ==
    ("_hv57_provider" :> <<0, 200, 500, 1000, 2000, 5000, 10000, 15000, 20000>>)
    @@ ("_bufton_provider" :> <<0, 250, 500, 1000, 2000, 3000, 5000, 8000, 12000>>)
    @@ ("_greenwood_provider" :> <<0, 500, 1500, 3000, 6000, 9000, 12000, 16000>>)

\* the sample of a variable at the hour of the query, in data whose timeline has that hour
SampleAtHour(name) ==
    ReadSample(fin.fetched.hourly, name,
               ResolveHourIndex(fin.fetched.hourly, HourKey(fin.query)).idx).v

\* C13: a returned profile has exactly one layer per altitude of its
\* provider's ladder, in ladder order with strictly increasing altitude; every
\* layer carries Cn2 and wind; temperature appears exactly when the provider
\* has a temperature function (Bufton, Greenwood) and its sample is not null,
\* humidity exactly when the provider is Greenwood and its sample is not null.
\* Hufnagel-Valley gives 9 layers at 0, 0.2, 0.5, 1, 2, 5, 10, 15 and 20 km.
C13_OneLayerPerLadderAltitude ==
    \A i \in Built :
        LET layers == fout[i].out.profile.layers
            pr     == fout[i].out.provider
            ladder == Ladders[pr]
        IN  /\ Len(layers) = Len(ladder)
            /\ pr = "_hv57_provider" => Len(layers) = 9
            /\ \A n \in 1..Len(layers) :
                  /\ layers[n].alt_km = ladder[n]
                  /\ n > 1 => layers[n - 1].alt_km < layers[n].alt_km
                  /\ {"cn2", "wind_mps"} \subseteq DOMAIN layers[n]
                  /\ "temperature_k" \in DOMAIN layers[n] <=>
                        \/ pr = "_bufton_provider" /\ SampleAtHour("temperature_850hPa") # None
                        \/ pr = "_greenwood_provider" /\ SampleAtHour("temperature_200hPa") # None
                  /\ "humidity" \in DOMAIN layers[n] <=>
                        pr = "_greenwood_provider" /\ SampleAtHour("relative_humidity_700hPa") # None

\* a Hufnagel-Valley profile and a Greenwood profile with temperature and
\* humidity have been built from the same data
C13_Witness ==
    /\ Len(fout) = 2
    /\ Built = {1, 2}
    /\ fout[1].out.provider = "_hv57_provider"
    /\ Len(fout[1].out.profile.layers) = 9
    /\ fout[1].out.profile.layers[2].alt_km = 200
    /\ fout[2].out.provider = "_greenwood_provider"
    /\ Len(fout[2].out.profile.layers) = 8
    /\ "temperature_k" \in DOMAIN fout[2].out.profile.layers[1]
    /\ "humidity" \in DOMAIN fout[2].out.profile.layers[8]

\* the wind components each provider requires
WindVariables ==
    ("_hv57_provider" :> {Hv57Variables[n] : n \in 1..2})
    @@ ("_bufton_provider" :> {BuftonVariables[n] : n \in 1..6})
    @@ ("_greenwood_provider" :> {GreenwoodVariables[n] : n \in 1..4})

\* every variable each provider reads
ReadVariables ==
    ("_hv57_provider" :> Range(Hv57Variables))
    @@ ("_bufton_provider" :> Range(BuftonVariables))
    @@ ("_greenwood_provider" :> Range(GreenwoodVariables))

\* the builds whose provider got a dataset that has the hour of the query
Sampled ==
    {i \in 1..Len(fout) :
        /\ fout[i].out.provider # "none"
        /\ fin.fetched.res = "ok"
        /\ ResolveHourIndex(fin.fetched.hourly, HourKey(fin.query)).res = "ok"}

\* the position of the hour of the query in the timeline
HourIdx == ResolveHourIndex(fin.fetched.hourly, HourKey(fin.query)).idx

C15_IncompletePayloadIsAProviderError ==
    \A i \in Sampled :
        (/\ fin.query.wavelength_nm # 0
         /\ \E v \in ReadVariables[fout[i].out.provider] :
               \/ v \notin DOMAIN fin.fetched.hourly.series
               \/ Len(fin.fetched.hourly.series[v]) < HourIdx + 1)
        => fout[i].out.res = "provider_error"

----------------------------------------------------------------------------
(* The weather field sampler of meteo_field.py.  Point values are literals
   in thousandths; latitudes, longitudes and the mean are exact fractions
   [num, den]. *)

WindSpeedName == <<"w", "i", "n", "d", "_", "s", "p", "e", "e", "d">>

TemperatureName == <<"t", "e", "m", "p", "e", "r", "a", "t", "u", "r", "e">>

RelativeHumidityName == <<"r", "e", "l", "a", "t", "i", "v", "e", "_", "h", "u", "m", "i", "d", "i", "t", "y">>

GeopotentialHeightName == <<"g", "e", "o", "p", "o", "t", "e", "n", "t", "i", "a", "l", "_", "h", "e", "i", "g", "h", "t">>

\* VARIABLE_DEFINITIONS: per variable its label, units and the Open-Meteo
\* name of each level it has
VARIABLE_DEFINITIONS ==
    (WindSpeedName :>
        [label |-> "Wind speed", units |-> "m/s",
         levels |-> (200 :> "wind_speed_200hPa") @@ (250 :> "wind_speed_250hPa")
                    @@ (300 :> "wind_speed_300hPa") @@ (500 :> "wind_speed_500hPa")
                    @@ (700 :> "wind_speed_700hPa") @@ (850 :> "wind_speed_850hPa")])
    @@ (TemperatureName :>
        [label |-> "Temperature", units |-> "degC",
         levels |-> (200 :> "temperature_200hPa") @@ (300 :> "temperature_300hPa")
                    @@ (500 :> "temperature_500hPa") @@ (700 :> "temperature_700hPa")
                    @@ (850 :> "temperature_850hPa")])
    @@ (RelativeHumidityName :>
        [label |-> "Relative humidity", units |-> "%",
         levels |-> (700 :> "relative_humidity_700hPa") @@ (850 :> "relative_humidity_850hPa")
                    @@ (925 :> "relative_humidity_925hPa")])
    @@ (GeopotentialHeightName :>
        [label |-> "Geopotential height", units |-> "m",
         levels |-> (500 :> "geopotential_height_500hPa")
                    @@ (700 :> "geopotential_height_700hPa")
                    @@ (850 :> "geopotential_height_850hPa")])

NoDefinition == [label |-> "", units |-> "", levels |-> <<>>]

\* _resolve_variable that looks the variable up as it was written
ResolveVariable_AsWritten(variable, level_hpa) ==
    LET key == IF variable.given THEN variable.text ELSE <<>>
    IN  IF key \notin DOMAIN VARIABLE_DEFINITIONS
        THEN [res |-> "parameter_error", definition |-> NoDefinition]
        ELSE IF level_hpa \notin DOMAIN VARIABLE_DEFINITIONS[key].levels
        THEN [res |-> "parameter_error", definition |-> NoDefinition]
        ELSE [res |-> "ok", definition |-> VARIABLE_DEFINITIONS[key]]

\* _resolve_variable
ResolveVariable(variable, level_hpa) ==
    LET key == Lower(Strip(IF variable.given THEN variable.text ELSE <<>>))
    IN  IF key \notin DOMAIN VARIABLE_DEFINITIONS
        THEN [res |-> "parameter_error", definition |-> NoDefinition]
        ELSE IF level_hpa \notin DOMAIN VARIABLE_DEFINITIONS[key].levels
        THEN [res |-> "parameter_error", definition |-> NoDefinition]
        ELSE [res |-> "ok", definition |-> VARIABLE_DEFINITIONS[key]]

\* int(round(sqrt(n))): the integer nearest to the square root (the root of
\* an integer is never half way between two integers)
RoundSqrt(n) ==
    CHOOSE r \in 0..n : (2 * r - 1) * (2 * r - 1) < 4 * n /\ 4 * n < (2 * r + 1) * (2 * r + 1)

\* int(ceil(a / b)) for positive a and b
CeilDiv(a, b) == (a + b - 1) \div b

Fraction(num, den) == [num |-> num, den |-> den]

\* _lerp that stops one step short of the end
Lerp_Short(start, end, n, d) == Fraction(start * (d + 1) + (end - start) * n, d + 1)

\* _lerp(start, end, n / d)
Lerp(start, end, n, d) == Fraction(start * d + (end - start) * n, d)

\* _generate_grid with the number of rows rounded down
GenerateGrid_Floor(sample_hint) ==
    LET clamped_samples == Max(16, Min(900, sample_hint))
        cols == Max(12, RoundSqrt(clamped_samples * 2))
        rows == Max(6, clamped_samples \div cols)
    IN  [rows |-> rows, cols |-> cols,
         latitudes  |-> [i \in 1..rows |->
                           IF rows > 1 THEN Lerp(-80, 80, i - 1, rows - 1) ELSE Fraction(0, 1)],
         longitudes |-> [i \in 1..cols |->
                           IF cols > 1 THEN Lerp(-180, 180, i - 1, cols - 1) ELSE Fraction(0, 1)]]

\* _generate_grid
GenerateGrid(sample_hint) ==
    LET clamped_samples == Max(16, Min(900, sample_hint))
        cols == Max(12, RoundSqrt(clamped_samples * 2))
        rows == Max(6, CeilDiv(clamped_samples, cols))
    IN  [rows |-> rows, cols |-> cols,
         latitudes  |-> [i \in 1..rows |->
                           IF rows > 1 THEN Lerp(-80, 80, i - 1, rows - 1) ELSE Fraction(0, 1)],
         longitudes |-> [i \in 1..cols |->
                           IF cols > 1 THEN Lerp(-180, 180, i - 1, cols - 1) ELSE Fraction(0, 1)]]

\* what one grid point contributes: the client's failure, the failure of
\* _resolve_hour_index, or the sample of the hour (None when the series is
\* missing or too short)
PointValue(fetched, variable_key, hour_key) ==
    LET hour   == ResolveHourIndex(fetched.hourly, hour_key)
        series == IF variable_key \in DOMAIN fetched.hourly.series
                  THEN fetched.hourly.series[variable_key] ELSE <<>>
    IN  IF fetched.res # "ok" THEN [res |-> fetched.res, v |-> None]
        ELSE IF hour.res # "ok" THEN [res |-> hour.res, v |-> None]
        ELSE [res |-> "ok",
              v |-> IF hour.idx < Len(series) THEN series[hour.idx + 1] ELSE None]

\* what the first c points of a row add to the accumulator
RECURSIVE AccumulateRow(_, _, _, _)
AccumulateRow(points, cols, r, c) ==
    IF c = 0 THEN 0
    ELSE LET point == points[(r - 1) * cols + c]
         IN  AccumulateRow(points, cols, r, c - 1)
             + (IF point.v = None THEN 0 ELSE point.v[1].v)

\* accumulator after the first r rows
RECURSIVE Accumulate(_, _, _)
Accumulate(points, cols, r) ==
    IF r = 0 THEN 0
    ELSE Accumulate(points, cols, r - 1) + AccumulateRow(points, cols, r, cols)

NoField == <<>>

\* build_weather_field that counts every grid point as valid
BuildWeatherField_CountAll(query, answers) ==
    LET resolved == ResolveVariable(query.variable, query.level_hpa)
        variable_key == resolved.definition.levels[query.level_hpa]
        grid   == GenerateGrid(query.samples)
        total  == grid.rows * grid.cols
        points == [k \in 1..total |->
                     PointValue(answers[((k - 1) \div grid.cols) + 1][((k - 1) % grid.cols) + 1],
                                variable_key, HourKey(query))]
        failed == {k \in 1..total : points[k].res # "ok"}
        valid  == {k \in 1..total : points[k].v # None}
        values == {points[k].v[1].v : k \in valid}
    IN  IF resolved.res # "ok"
        THEN [res |-> resolved.res, fetches |-> 0, payload |-> NoField]
        ELSE IF failed # {}
        THEN [res |-> points[SetMin(failed)].res, fetches |-> SetMin(failed), payload |-> NoField]
        ELSE IF valid = {}
        THEN [res |-> "provider_error", fetches |-> total, payload |-> NoField]
        ELSE [res |-> "ok", fetches |-> total,
              payload |->
                [status |-> "ok",
                 timestamp |-> query.timestamp,
                 variable |-> [key |-> query.variable,
                               label |-> resolved.definition.label,
                               units |-> resolved.definition.units,
                               pressure_hpa |-> query.level_hpa,
                               open_meteo_key |-> variable_key],
                 grid |-> [rows |-> grid.rows, cols |-> grid.cols,
                           latitudes |-> grid.latitudes, longitudes |-> grid.longitudes,
                           values |-> [r \in 1..grid.rows |-> [c \in 1..grid.cols |->
                                         points[(r - 1) * grid.cols + c].v]],
                           min |-> CHOOSE x \in values : \A y \in values : x <= y,
                           max |-> CHOOSE x \in values : \A y \in values : x >= y,
                           mean |-> Fraction(Accumulate(points, grid.cols, grid.rows), total),
                           valid_samples |-> total],
                 metadata |-> [requested_samples |-> query.samples,
                               actual_samples |-> grid.rows * grid.cols]]]

\* build_weather_field; answers[r][c] is what client.fetch_hourly returns for
\* the point of row r and column c.  The loop stops at the first point that
\* raises; fetches counts the calls of client.fetch_hourly made
BuildWeatherField(query, answers) ==
    LET resolved == ResolveVariable(query.variable, query.level_hpa)
        variable_key == resolved.definition.levels[query.level_hpa]
        grid   == GenerateGrid(query.samples)
        total  == grid.rows * grid.cols
        points == [k \in 1..total |->
                     PointValue(answers[((k - 1) \div grid.cols) + 1][((k - 1) % grid.cols) + 1],
                                variable_key, HourKey(query))]
        failed == {k \in 1..total : points[k].res # "ok"}
        valid  == {k \in 1..total : points[k].v # None}
        values == {points[k].v[1].v : k \in valid}
    IN  IF resolved.res # "ok"
        THEN [res |-> resolved.res, fetches |-> 0, payload |-> NoField]
        ELSE IF failed # {}
        THEN [res |-> points[SetMin(failed)].res, fetches |-> SetMin(failed), payload |-> NoField]
        ELSE IF valid = {}
        THEN [res |-> "provider_error", fetches |-> total, payload |-> NoField]
        ELSE [res |-> "ok", fetches |-> total,
              payload |->
                [status |-> "ok",
                 timestamp |-> query.timestamp,
                 variable |-> [key |-> query.variable,
                               label |-> resolved.definition.label,
                               units |-> resolved.definition.units,
                               pressure_hpa |-> query.level_hpa,
                               open_meteo_key |-> variable_key],
                 grid |-> [rows |-> grid.rows, cols |-> grid.cols,
                           latitudes |-> grid.latitudes, longitudes |-> grid.longitudes,
                           values |-> [r \in 1..grid.rows |-> [c \in 1..grid.cols |->
                                         points[(r - 1) * grid.cols + c].v]],
                           min |-> CHOOSE x \in values : \A y \in values : x <= y,
                           max |-> CHOOSE x \in values : \A y \in values : x >= y,
                           mean |-> Fraction(Accumulate(points, grid.cols, grid.rows), Cardinality(valid)),
                           valid_samples |-> Cardinality(valid)],
                 metadata |-> [requested_samples |-> query.samples,
                               actual_samples |-> grid.rows * grid.cols]]]

----------------------------------------------------------------------------
(* Specification of build_weather_field: one sample hint, the field built
   for one variable, level and behaviour of the data source after another *)

\* number of fields built for the same hint
MaxFields == 2

\* the hints for which every variable, level and data source is tried; the
\* other hints are built from the constant source only
FocusHints == {16}

SampleHints == (16..900) \cup {0, 15, 901, 2000}

\* how the data source answers the points of the grid
FieldSources ==
    {"const", "all_null", "ramp", "sparse", "last_only", "short_series", "missing_series",
     "no_timeline", "fetch_fails", "not_json"}

\* what client.fetch_hourly returns for the point of row r and column c
PointAnswer(source, variable_key, r, c, rows, cols) ==
    LET Dataset(time, series) == [res |-> "ok", hourly |-> [time |-> time, series |-> series]]
        Hours == Timeline(<<11, 12>>)
        WithSample(v) == Dataset(Hours, variable_key :> <<None, v>>)
    IN  CASE source = "const" -> WithSample(Some(Lit(5000)))
          [] source = "all_null" -> WithSample(None)
          [] source = "ramp" -> WithSample(Some(Lit(100 * r + c - 300)))
          [] source = "sparse" ->
                WithSample(IF (r + c) % 2 = 0 THEN None ELSE Some(Lit(c - 5)))
          [] source = "last_only" ->
                WithSample(IF r = rows /\ c = cols THEN Some(Lit(0)) ELSE None)
          [] source = "short_series" -> Dataset(Hours, variable_key :> <<Some(Lit(7000))>>)
          [] source = "missing_series" ->
                Dataset(Hours, "wind_u_component_300hPa" :> <<None, Some(Lit(7000))>>)
          [] source = "no_timeline" ->
                IF r = 1 /\ c = 2
                THEN Dataset(NoTimeline, variable_key :> <<None, Some(Lit(5000))>>)
                ELSE WithSample(Some(Lit(5000)))
          [] source = "fetch_fails" ->
                IF r = 2 /\ c = 1
                THEN [res |-> "provider_error", hourly |-> [time |-> NoTimeline, series |-> <<>>]]
                ELSE WithSample(Some(Lit(5000)))
          [] source = "mixed" ->
                CASE (r + c) % 4 = 0 -> WithSample(Some(Lit(100 * r + c)))
                  [] (r + c) % 4 = 1 -> WithSample(None)
                  [] (r + c) % 4 = 2 -> Dataset(Hours, variable_key :> <<Some(Lit(7000))>>)
                  [] OTHER -> Dataset(Hours, "wind_u_component_300hPa" :> <<None, Some(Lit(7000))>>)
          [] source = "last_fails" ->
                IF r = rows /\ c = cols
                THEN [res |-> "provider_error", hourly |-> [time |-> NoTimeline, series |-> <<>>]]
                ELSE WithSample(Some(Lit(5000)))
          [] source = "not_json" ->
                [res |-> "other_error", hourly |-> [time |-> NoTimeline, series |-> <<>>]]

\* the answers of a source for every point of the grid of a query
Answers(source, query) ==
    LET grid == GenerateGrid(query.samples)
        resolved == ResolveVariable(query.variable, query.level_hpa)
        variable_key == IF resolved.res = "ok" THEN resolved.definition.levels[query.level_hpa]
                        ELSE "none"
    IN  [r \in 1..grid.rows |-> [c \in 1..grid.cols |->
            PointAnswer(source, variable_key, r, c, grid.rows, grid.cols)]]

FieldOption(text, base, level, source) ==
    [variable |-> text, base |-> base, level_hpa |-> level, source |-> source]

BasicOption == FieldOption(Given(WindSpeedName), WindSpeedName, 200, "const")

\* variables and levels in and out of the catalog, then every data source
FieldOptions ==
    {FieldOption(Given(n), n, 999, "const") : n \in DOMAIN VARIABLE_DEFINITIONS}
    \cup {FieldOption(Given(<<" ", "T", "e", "m", "p", "e", "r", "a", "t", "u", "r", "e", "\t">>), TemperatureName, 300, "const"),
          FieldOption(Given(TemperatureName), TemperatureName, 250, "const"),
          FieldOption(Given(RelativeHumidityName), RelativeHumidityName, 925, "ramp"),
          FieldOption(Given(GeopotentialHeightName), GeopotentialHeightName, 200, "const"),
          FieldOption(Given(<<"p", "r", "e", "s", "s", "u", "r", "e">>), <<"p", "r", "e", "s", "s", "u", "r", "e">>, 500, "const"),
          FieldOption(Given(<<"w", "i", "n", "d", " ", "s", "p", "e", "e", "d">>), <<"w", "i", "n", "d", " ", "s", "p", "e", "e", "d">>, 200, "const"),
          FieldOption(NotGiven, <<>>, 200, "const")}
    \cup {FieldOption(Given(WindSpeedName), WindSpeedName, 200, src) : src \in FieldSources}

FieldQuery(samples, option) ==
    [timestamp |-> [day |-> 0, hour |-> 12, minute |-> 30],
     variable |-> option.variable, level_hpa |-> option.level_hpa, samples |-> samples]

InitField ==
    /\ InitCache
    /\ InitNoThreads
    /\ fin \in {[samples |-> h] : h \in SampleHints}
    /\ fout = <<>>

\* build_weather_field(query)
BuildField ==
    /\ Len(fout) < MaxFields
    /\ \E option \in (IF fin.samples \in FocusHints THEN FieldOptions ELSE {BasicOption}) :
          LET query == FieldQuery(fin.samples, option)
          IN  fout' = Append(fout, [option |-> option,
                                    out |-> BuildWeatherField(query, Answers(option.source, query))])
    /\ UNCHANGED <<fin, cacheVars, concVars>>

NextField == BuildField

SpecField == InitField /\ [][NextField]_vars

\* whether a variable, written in lower case without padding, has the level
Catalogued(base, level_hpa) ==
    /\ base \in DOMAIN VARIABLE_DEFINITIONS
    /\ level_hpa \in DOMAIN VARIABLE_DEFINITIONS[base].levels

\* C16: build_weather_field fails with a parameter error exactly when the
\* (variable, level) pair, the variable trimmed and lower-cased, is not in the
\* catalog, and then it has made no client fetch; temperature at 300 hPa
\* raises no parameter error; level 999 fails for every variable.
C16_ParameterErrorIffNotCatalogued ==
    \A i \in 1..Len(fout) :
        LET o == fout[i].option
            r == fout[i].out
        IN  /\ r.res = "parameter_error" <=> ~Catalogued(o.base, o.level_hpa)
            /\ r.res = "parameter_error" => r.fetches = 0
            /\ o.level_hpa = 999 => r.res = "parameter_error"
            /\ (o.base = TemperatureName /\ o.level_hpa = 300) => r.res # "parameter_error"

\* a padded, capitalized "temperature" at 300 hPa has been built with one
\* fetch per grid point, and geopotential height at 999 hPa refused
C16_Witness ==
    /\ Len(fout) = 2
    /\ fout[1].option.base = TemperatureName
    /\ fout[1].option.variable # Given(TemperatureName)
    /\ fout[1].option.level_hpa = 300
    /\ fout[1].out.res = "ok"
    /\ fout[1].out.fetches = 72
    /\ fout[2].option.base = GeopotentialHeightName
    /\ fout[2].option.level_hpa = 999
    /\ fout[2].out.res = "parameter_error"
    /\ fout[2].out.fetches = 0

\* the fields that were returned
Fields == {i \in 1..Len(fout) : fout[i].out.res = "ok"}

\* C17: for every hint h in 16..900 the grid of a returned field has
\* cols = max(12, nearest integer to sqrt(2h)) and rows = max(6, ceil(h / cols)),
\* so rows * cols >= h; actual_samples = rows * cols and requested_samples = h;
\* for h = 120, rows * cols <= 240.
C17_GridSizeFromHint ==
    \A i \in Fields :
        fin.samples \in 16..900 =>
            LET h    == fin.samples
                rows == fout[i].out.payload.grid.rows
                cols == fout[i].out.payload.grid.cols
                meta == fout[i].out.payload.metadata
            IN  /\ cols >= 12
                /\ cols > 12 => /\ (2 * cols - 1) * (2 * cols - 1) < 8 * h
                                /\ 8 * h < (2 * cols + 1) * (2 * cols + 1)
                /\ cols = 12 => 8 * h < 25 * 25
                /\ rows >= 6
                /\ rows > 6 => (rows - 1) * cols < h
                /\ rows * cols >= h
                /\ meta.actual_samples = rows * cols
                /\ meta.requested_samples = h
                /\ h = 120 => rows * cols <= 240

\* a hint of 121 has given a grid of 8 x 16 = 128 points
C17_Witness ==
    /\ Len(fout) = 1
    /\ Fields = {1}
    /\ fin.samples = 121
    /\ fout[1].out.payload.grid.rows = 8
    /\ fout[1].out.payload.grid.cols = 16
    /\ fout[1].out.payload.metadata.actual_samples = 128
    /\ fout[1].out.payload.metadata.requested_samples = 121

Less(a, b) == a.num * b.den < b.num * a.den

Equals(a, n) == a.num = n * a.den

\* C18: for every hint the latitude array has rows entries and the longitude
\* array cols entries, both strictly increasing, from exactly -80 to 80 and
\* from exactly -180 to 180; fields built for the same hint, whatever the
\* variable and the data, have the same grid.
C18_GridArraysSpanTheGlobe ==
    \A i \in Fields :
        LET grid == fout[i].out.payload.grid
        IN  /\ Len(grid.latitudes) = grid.rows
            /\ Len(grid.longitudes) = grid.cols
            /\ \A n \in 2..grid.rows : Less(grid.latitudes[n - 1], grid.latitudes[n])
            /\ \A n \in 2..grid.cols : Less(grid.longitudes[n - 1], grid.longitudes[n])
            /\ Equals(grid.latitudes[1], -80)
            /\ Equals(grid.latitudes[grid.rows], 80)
            /\ Equals(grid.longitudes[1], -180)
            /\ Equals(grid.longitudes[grid.cols], 180)
            /\ \A j \in Fields :
                  LET other == fout[j].out.payload.grid
                  IN  /\ other.rows = grid.rows
                      /\ other.cols = grid.cols
                      /\ other.latitudes = grid.latitudes
                      /\ other.longitudes = grid.longitudes

\* two fields of different variables and data have been built for a hint of 16
C18_Witness ==
    /\ Len(fout) = 2
    /\ Fields = {1, 2}
    /\ fin.samples = 16
    /\ fout[1].option.base = RelativeHumidityName
    /\ fout[2].option.source = "sparse"
    /\ fout[1].out.payload.grid.rows = 6
    /\ fout[1].out.payload.grid.cols = 12

\* the sum of the first c cells of a row, a null cell counting 0
RECURSIVE SumRow(_, _)
SumRow(row, c) ==
    IF c = 0 THEN 0
    ELSE SumRow(row, c - 1) + (IF row[c] = None THEN 0 ELSE row[c][1].v)

\* the sum of the cells of the first r rows
RECURSIVE SumCells(_, _)
SumCells(values, r) ==
    IF r = 0 THEN 0
    ELSE SumCells(values, r - 1) + SumRow(values[r], Len(values[r]))

\* whether every point of the grid of build i yields null
AllNull(i) ==
    LET query == FieldQuery(fin.samples, fout[i].option)
        answers == Answers(fout[i].option.source, query)
        key == VARIABLE_DEFINITIONS[fout[i].option.base].levels[fout[i].option.level_hpa]
    IN  \A r \in DOMAIN answers : \A c \in DOMAIN answers[r] :
            PointValue(answers[r][c], key, HourKey(query)) = [res |-> "ok", v |-> None]

----------------------------------------------------------------------------
(* The two endpoints of main.py (the same handlers are in backend.py).  A
   time string is a sequence of tokens, such as
   <<"2024-06-15", "T", "12", ":", "30", "Z">>. *)

Dates == ("2024-06-15" :> 0)

HourTokens == ("00" :> 0) @@ ("12" :> 12) @@ ("20" :> 20) @@ ("23" :> 23)

MinuteTokens == ("00" :> 0) @@ ("30" :> 30) @@ ("59" :> 59)

\* str.rstrip('Z')
RECURSIVE RStripZ(_)
RStripZ(time) ==
    IF time # <<>> /\ time[Len(time)] = "Z" THEN RStripZ(SubSeq(time, 1, Len(time) - 1))
    ELSE time

\* datetime.fromisoformat: a date, or a date with hours and minutes; a
\* ValueError otherwise
FromIsoFormat(time) ==
    IF Len(time) = 1 /\ time[1] \in DOMAIN Dates
    THEN [res |-> "ok", timestamp |-> [day |-> Dates[time[1]], hour |-> 0, minute |-> 0]]
    ELSE IF /\ Len(time) = 5
            /\ time[1] \in DOMAIN Dates
            /\ time[2] = "T"
            /\ time[3] \in DOMAIN HourTokens
            /\ time[4] = ":"
            /\ time[5] \in DOMAIN MinuteTokens
    THEN [res |-> "ok",
          timestamp |-> [day |-> Dates[time[1]], hour |-> HourTokens[time[3]],
                         minute |-> MinuteTokens[time[5]]]]
    ELSE [res |-> "value_error", timestamp |-> [day |-> 0, hour |-> 0, minute |-> 0]]

\* the except clauses of get_atmosphere_profile
AtmosphereStatus(res) ==
    CASE res = "ok" -> 200
      [] res = "model_not_found" -> 404
      [] res = "provider_error" -> 502
      [] OTHER -> 500

\* except clauses of get_weather_field that do not single out the parameter error
FieldStatus_NoParameterClause(res) ==
    CASE res = "ok" -> 200
      [] res = "provider_error" -> 502
      [] OTHER -> 500

\* the except clauses of get_weather_field
FieldStatus(res) ==
    CASE res = "ok" -> 200
      [] res = "parameter_error" -> 400
      [] res = "provider_error" -> 502
      [] OTHER -> 500

\* the answer to a request: the status, whether the build was started, what
\* the build gave and the body returned
Response(endpoint, req, status, computed, res, body) ==
    [endpoint |-> endpoint, req |-> req, status |-> status, computed |-> computed,
     res |-> res, body |-> body]

\* get_atmosphere_profile(req), build_profile working on the data the source gives
GetAtmosphereProfile(req, fetched) ==
    LET parsed == FromIsoFormat(RStripZ(req.time))
        wavelength == IF req.wavelength_nm = None \/ req.wavelength_nm = Some(0)
                      THEN 810 ELSE req.wavelength_nm[1]
        query == [lat |-> req.lat, lon |-> req.lon, timestamp |-> parsed.timestamp,
                  model |-> req.model, ground_cn2_day |-> req.ground_cn2_day,
                  ground_cn2_night |-> req.ground_cn2_night, wavelength_nm |-> wavelength]
        built == BuildProfile(query, fetched)
    IN  IF parsed.res # "ok"
        THEN Response("get_atmosphere_profile", req, 400, FALSE, "value_error", <<>>)
        ELSE Response("get_atmosphere_profile", req, AtmosphereStatus(built.res), TRUE,
                      built.res, built.profile)

\* get_weather_field(req), the data source answering as the given source does
GetWeatherField(req, source) ==
    LET parsed == FromIsoFormat(RStripZ(req.time))
        query == [timestamp |-> parsed.timestamp, variable |-> req.variable,
                  level_hpa |-> req.level_hpa, samples |-> req.samples]
        built == BuildWeatherField(query, Answers(source, query))
    IN  IF parsed.res # "ok"
        THEN Response("get_weather_field", req, 400, FALSE, "value_error", NoField)
        ELSE Response("get_weather_field", req, FieldStatus(built.res), TRUE,
                      built.res, built.payload)

----------------------------------------------------------------------------
(* Specification of the endpoints: requests answered one after another over
   the same data *)

\* number of requests answered
MaxRequests == 2

TimeStrings ==
    {<<"2024-06-15", "T", "12", ":", "30", "Z">>,
     <<"2024-06-15", "T", "12", ":", "30">>,
     <<"2024-06-15", "T", "25", ":", "00", "Z">>,
     <<"yesterday">>}

AtmosRequests ==
    {[time |-> t, model |-> m, wavelength_nm |-> w, lat |-> 40400, lon |-> -3700,
      ground_cn2_day |-> 50000, ground_cn2_night |-> 5] :
        t \in TimeStrings,
        m \in {Given(HufnagelValley), Given(<<"h", "v", "5">>)},
        w \in {Some(810)}}
    \cup {[time |-> <<"2024-06-15", "T", "12", ":", "30", "Z">>, model |-> Given(Bufton),
           wavelength_nm |-> None, lat |-> 40400, lon |-> -3700,
           ground_cn2_day |-> 50000, ground_cn2_night |-> 5]}

WeatherFieldRequests ==
    {[time |-> t, variable |-> Given(WindSpeedName), level_hpa |-> l, samples |-> 16] :
        t \in {<<"2024-06-15", "T", "12", ":", "30", "Z">>, <<"yesterday">>},
        l \in {200, 999}}

\* what the data source gives to build_profile, and how it answers the grid
\* points of build_weather_field
ServiceData ==
    {[fetched |-> [res |-> "ok",
                   hourly |-> [time |-> Timeline(<<11, 12>>),
                               series |-> Series300(Some(Lit(4000)), Some(Lit(0))) @@ o]],
      source |-> src] :
        o \in {SeriesOther, SeriesNullWind}, src \in {"const", "all_null"}}
    \cup {[fetched |-> [res |-> "provider_error",
                        hourly |-> [time |-> NoTimeline, series |-> <<>>]],
           source |-> "fetch_fails"],
          [fetched |-> [res |-> "other_error",
                        hourly |-> [time |-> NoTimeline, series |-> <<>>]],
           source |-> "not_json"]}

InitService ==
    /\ InitCache
    /\ InitNoThreads
    /\ fin \in ServiceData
    /\ fout = <<>>

\* POST /api/get_atmosphere_profile
PostAtmosphereProfile ==
    /\ Len(fout) < MaxRequests
    /\ \E req \in AtmosRequests :
          fout' = Append(fout, GetAtmosphereProfile(req, fin.fetched))
    /\ UNCHANGED <<fin, cacheVars, concVars>>

\* POST /api/get_weather_field
PostWeatherField ==
    /\ Len(fout) < MaxRequests
    /\ \E req \in WeatherFieldRequests :
          fout' = Append(fout, GetWeatherField(req, fin.source))
    /\ UNCHANGED <<fin, cacheVars, concVars>>

NextService == PostAtmosphereProfile \/ PostWeatherField

SpecService == InitService /\ [][NextService]_vars

\* a time string that is not an ISO timestamp once its trailing Z's are dropped
Malformed(time) == FromIsoFormat(RStripZ(time)).res # "ok"

\* C20: a malformed timestamp is answered 400 before any build starts;
\* otherwise the build runs and an unregistered model is answered 404, a
\* provider error 502, an uncatalogued variable/level pair 400, a result 200,
\* and 500 is the answer of exactly the failures of no typed kind.
C20_EveryFailureHasItsStatus ==
    \A i \in 1..Len(fout) :
        LET r == fout[i]
        IN  IF Malformed(r.req.time)
            THEN r.status = 400 /\ ~r.computed
            ELSE /\ r.computed
                 /\ r.res = "ok" <=> r.status = 200
                 /\ r.res = "model_not_found" <=> r.status = 404
                 /\ r.res = "provider_error" <=> r.status = 502
                 /\ r.res = "parameter_error" <=> r.status = 400
                 /\ r.res = "other_error" <=> r.status = 500
                 /\ r.res = "model_not_found" => r.endpoint = "get_atmosphere_profile"
                 /\ r.res = "parameter_error" => r.endpoint = "get_weather_field"

\* a level that is not catalogued has been answered 400 by the field
\* endpoint after its build started, and an unregistered model 404
C20_Witness ==
    /\ Len(fout) = 2
    /\ fout[1].endpoint = "get_weather_field"
    /\ fout[1].req.level_hpa = 999
    /\ fout[1].computed
    /\ fout[1].res = "parameter_error"
    /\ fout[1].status = 400
    /\ fout[2].endpoint = "get_atmosphere_profile"
    /\ fout[2].res = "model_not_found"
    /\ fout[2].status = 404

----------------------------------------------------------------------------
(* Day and night of a query, under SpecProfile *)

\* C22: is_day is true exactly when the hour of the query's timestamp is in
\* [6, 18): true at 06:00 and 17:59, false at 05:59 and 18:00; ground_cn2 is
\* the day-time ground strength when is_day holds and the night-time one
\* otherwise; and the metadata of every profile built reports that is_day
\* and that ground_cn2, unclamped.
C22_DayFromSixToEighteen ==
    LET t == fin.query.timestamp
        minutes == 60 * t.hour + t.minute
        day == 360 <= minutes /\ minutes < 1080
    IN  /\ IsDay(fin.query) <=> day
        /\ GroundCn2(fin.query) =
              (IF day THEN fin.query.ground_cn2_day ELSE fin.query.ground_cn2_night)
        /\ \A i \in Built :
              /\ fout[i].out.profile.metadata.daytime = Some(day)
              /\ fout[i].out.profile.metadata.ground_cn2 =
                    Some(IF day THEN fin.query.ground_cn2_day ELSE fin.query.ground_cn2_night)

\* at 18:00 a Bufton and a Greenwood profile report night and the night-time
\* strength, which is below the floor of both providers
C22_Witness ==
    /\ fin.query.timestamp = [day |-> 0, hour |-> 18, minute |-> 0]
    /\ Len(fout) = 2
    /\ Built = {1, 2}
    /\ fout[1].out.provider = "_bufton_provider"
    /\ fout[2].out.provider = "_greenwood_provider"
    /\ fout[1].out.profile.metadata.daytime = Some(FALSE)
    /\ fout[2].out.profile.metadata.ground_cn2 = Some(5)

----------------------------------------------------------------------------
(* The wind of the integrated summary, under SpecSummary *)

\* the wind the integrator uses for a layer: its own, else the fallback, else 0
EffectiveWind(layer, fallback_wind) ==
    IF layer.wind_mps # None THEN layer.wind_mps[1]
    ELSE IF fallback_wind # None THEN fallback_wind[1]
    ELSE Lit(0)

\* how many times a value occurs in a sequence
Occurrences(seq, x) == Cardinality({i \in 1..Len(seq) : seq[i] = x})

\* C23 as stated: with at least 2 layers that carry Cn2 (and a wavelength
\* that is not 0), each layer's effective wind is the layer wind, else the
\* supplied fallback wind, else 0; wind_rms is the root mean square of these
\* effective winds unless all of them are exactly zero, in which case
\* wind_rms is the supplied fallback wind; and the coherence time is present
\* and computed from r0 and max(wind_rms, 0.001).
C23_WindFallbackChain ==
    (Len(fout) = 1 /\ Cn2Count(fin.layers) >= 2 /\ fin.settings.wavelength_nm # 0) =>
        LET used      == WithCn2(fin.layers)
            effective == [i \in 1..Len(used) |-> EffectiveWind(used[i], fin.fallback_wind)]
            summary   == fout[1].summary
        IN  /\ fout[1].res = "ok"
            /\ summary.wind_rms # None
            /\ IF \A i \in 1..Len(effective) : IsZero(effective[i])
               THEN fin.fallback_wind # None => summary.wind_rms = fin.fallback_wind
               ELSE /\ summary.wind_rms[1].k = "rms"
                    /\ Len(summary.wind_rms[1].args[1]) = Len(effective)
                    /\ \A i \in 1..Len(effective) :
                          Occurrences(summary.wind_rms[1].args[1], effective[i])
                              = Occurrences(effective, effective[i])
            /\ summary.coherence_time_ms # None
            /\ summary.coherence_time_ms[1] =
                  Term("tau0", <<summary.r0_zenith[1], summary.wind_rms[1]>>)

----------------------------------------------------------------------------
(* Failed fetches and the cache, under Spec *)

\* the remote outcomes the claim is about: the request fails, or the response
\* has no 'hourly' block
FailedOutcomes == {"conn_error", "timeout", "http_error", "no_hourly"}

\* C24: a fetch_hourly call whose remote request fails, or whose response
\* lacks the 'hourly' block, issues exactly one remote request, raises the
\* provider error and leaves the cache exactly as it was (entries and their
\* order); afterwards a key cached before is still served without a remote
\* request, and the next fetch for the failed key issues a new remote request.
C24_FailedFetchLeavesTheCache ==
    /\ [][(ncalls' = ncalls + 1 /\ hist'[Len(hist')].outcome \in FailedOutcomes) =>
             /\ hist'[Len(hist')].reqs = 1
             /\ hist'[Len(hist')].res = "provider_error"
             /\ hist'[Len(hist')].obj = NoObj
             /\ cache' = cache
             /\ recent' = recent]_vars
    /\ [](Len(hist) = 2 /\ hist[1].outcome \in FailedOutcomes =>
             /\ (hist[2].gap >= 0 /\ hist[2].call.variables # <<>>) =>
                    hist[2].reqs = 0 /\ hist[2].res = "ok"
             /\ (hist[2].gap < 0 /\ hist[2].call.variables # <<>>) =>
                    hist[2].reqs = 1 /\ hist[2].outcome # "none")

\* a key was cached, the fetch of a second key got a response without the
\* hourly block, and the fetch of that second key again issued a new request
\* and got its dataset
C24_Witness ==
    /\ ncalls = 3
    /\ Len(hist) = 2
    /\ hist[1].outcome = "no_hourly"
    /\ hist[1].reqs = 1
    /\ CacheKey(hist[2].call) = CacheKey(hist[1].call)
    /\ hist[2].reqs = 1
    /\ hist[2].res = "ok"
    /\ Len(cache) = 2
    /\ cache[2].key = CacheKey(hist[2].call)

----------------------------------------------------------------------------
(* build_weather_field on the cache of the client: the loop over the grid
   points, one client.fetch_hourly call per step.  A field under construction
   is the last element of fout: the option it was asked with, where it is
   (pc), the fetches made so far (log), the remote requests they issued
   (reqs) and what the build returned or raised (out). *)

\* round(x, 3) of a coordinate given as an exact fraction: the nearest 1e-3
\* degree, a tie going to the even neighbour
Round3Fraction(f) ==
    LET q == (2000 * f.num + f.den) \div (2 * f.den)
    IN  IF (2000 * f.num + f.den) % (2 * f.den) = 0 /\ q % 2 = 1 THEN q - 1 ELSE q

\* _HourlyPointQuery.date_key
DateKey(query) == CHOOSE d \in DOMAIN Dates : Dates[d] = query.timestamp.day

\* the cache key of the fetch of one grid point: tuple(sorted(set((variable_key,))))
\* is (variable_key,)
PointKey(lat, lon, query, variable_key) ==
    [lat  |-> Round3Fraction(lat),
     lon  |-> Round3Fraction(lon),
     date |-> DateKey(query),
     vars |-> <<variable_key>>]

\* the nested loops taken column by column
GridPoint_ColumnMajor(grid, k) ==
    [r |-> ((k - 1) % grid.rows) + 1, c |-> ((k - 1) \div grid.rows) + 1]

\* the row and column of the k-th iteration of the nested loops:
\* latitudes outer, longitudes inner
GridPoint(grid, k) ==
    [r |-> ((k - 1) \div grid.cols) + 1, c |-> ((k - 1) % grid.cols) + 1]

\* client.fetch_hourly over a cache that stores nothing
FetchPoint_NoStore(c, h, key, answer) ==
    LET i == CacheIndex(c, key)
    IN  IF i # 0 THEN
            [cache |-> CacheTouch(c, i), heap |-> h, hit |-> TRUE, reqs |-> 0,
             fetched |-> [res |-> "ok", hourly |-> h[h[c[i].obj].hourly].val]]
        ELSE [cache |-> c, heap |-> h, hit |-> FALSE, reqs |-> 1, fetched |-> answer]

\* client.fetch_hourly for one cache key on the cache c and heap h; answer is
\* what the remote request gives if one is issued.  The copy handed back is
\* only read, so the heap keeps the cached datasets alone
FetchPoint(c, h, key, answer) ==
    LET i == CacheIndex(c, key)
    IN  IF i # 0 THEN
            [cache |-> CacheTouch(c, i), heap |-> h, hit |-> TRUE, reqs |-> 0,
             fetched |-> [res |-> "ok", hourly |-> h[h[c[i].obj].hourly].val]]
        ELSE IF answer.res # "ok" THEN
            [cache |-> c, heap |-> h, hit |-> FALSE, reqs |-> 1, fetched |-> answer]
        ELSE
            LET raw   == AllocDataset(h, "resp", key, 0, answer.hourly)
                store == CacheStore(c, key, raw.obj)
            IN  [cache |-> store,
                 heap  |-> IF Len(c) >= CacheMaxSize THEN Collect(raw.heap, store, <<>>)
                           ELSE raw.heap,
                 hit |-> FALSE, reqs |-> 1, fetched |-> answer]

\* what the fetches logged so far returned, by row and column
LoggedAnswers(log, grid) ==
    [r \in 1..grid.rows |-> [c \in 1..grid.cols |-> log[(r - 1) * grid.cols + c].fetched]]

\* a loop that records null for a point that raised and goes on
AfterPoint_GoesOn(build, query, variable_key, grid, entry) ==
    LET log   == Append(build.log, entry)
        point == PointValue(entry.fetched, variable_key, HourKey(query))
        going == [build EXCEPT !.log = log, !.reqs = @ + entry.reqs]
    IN  IF Len(log) < grid.rows * grid.cols THEN going
        ELSE [going EXCEPT !.pc = "done",
                           !.out = [res |-> "ok", fetches |-> Len(log), payload |-> NoField]]

\* the rest of one iteration, and of the function after the last one: the
\* point raises, or the loop goes on, or the field is put together
AfterPoint(build, query, variable_key, grid, entry) ==
    LET log   == Append(build.log, entry)
        point == PointValue(entry.fetched, variable_key, HourKey(query))
        going == [build EXCEPT !.log = log, !.reqs = @ + entry.reqs]
    IN  IF point.res # "ok"
        THEN [going EXCEPT !.pc = "done",
                           !.out = [res |-> point.res, fetches |-> Len(log), payload |-> NoField]]
        ELSE IF Len(log) < grid.rows * grid.cols THEN going
        ELSE [going EXCEPT !.pc = "done",
                           !.out = BuildWeatherField(query, LoggedAnswers(log, grid))]

----------------------------------------------------------------------------
(* Specification of fields built one after another on one cache *)

\* number of fields built on the cache
MaxBuilds == 2

\* the grid of 72 points is built with every option
SamplerFocus == {16}

\* the first hint of every distinct grid up to the first grid that exceeds
\* the cache (144 points, hint 129), and the last hint whose grid fits (128)
SamplerHints ==
    {h \in 16..129 : h = 16 \/ GenerateGrid(h) # GenerateGrid(h - 1)} \cup {128}

\* how the data source answers in these builds: a source that mixes values,
\* nulls, short and missing series, two that fail at one point, another
\* variable, and a level that is not catalogued
SamplerOptions ==
    {FieldOption(Given(WindSpeedName), WindSpeedName, 200, src) :
        src \in {"mixed", "no_timeline", "fetch_fails"}}
    \cup {FieldOption(Given(TemperatureName), TemperatureName, 300, "const"),
          FieldOption(Given(WindSpeedName), WindSpeedName, 999, "const")}

\* the options of the grids that fill the cache or exceed it: the constant
\* source and one whose request for the last point fails
PlainOptions ==
    {FieldOption(Given(WindSpeedName), WindSpeedName, 200, src) : src \in {"const", "last_fails"}}

\* the options a hint is built with, the grids in between from the constant
\* source only
OptionsOf(hint) ==
    IF hint \in SamplerFocus THEN SamplerOptions
    ELSE IF hint >= CacheMaxSize THEN PlainOptions
    ELSE {BasicOption}

InitSampler ==
    /\ InitCache
    /\ InitNoThreads
    /\ fin \in {[samples |-> h] : h \in SamplerHints}
    /\ fout = <<>>

\* build_weather_field up to the loop
StartField ==
    /\ Len(fout) < MaxBuilds
    /\ IF fout = <<>> THEN TRUE ELSE fout[Len(fout)].pc = "done"
    /\ \E option \in OptionsOf(fin.samples) :
          LET query    == FieldQuery(fin.samples, option)
              resolved == ResolveVariable(query.variable, query.level_hpa)
              build    == [option |-> option, pc |-> "loop", log |-> <<>>, reqs |-> 0,
                           out |-> [res |-> "running", fetches |-> 0, payload |-> NoField]]
          IN  fout' = Append(fout,
                        IF resolved.res = "ok" THEN build
                        ELSE [build EXCEPT !.pc = "done",
                                           !.out = [res |-> resolved.res, fetches |-> 0,
                                                    payload |-> NoField]])
    /\ UNCHANGED <<fin, cacheVars, concVars>>

\* one iteration of the loop, the last one with the rest of the function
SamplePoint ==
    /\ IF fout = <<>> THEN FALSE ELSE fout[Len(fout)].pc = "loop"
    /\ LET build == fout[Len(fout)]
           query == FieldQuery(fin.samples, build.option)
           variable_key == ResolveVariable(query.variable, query.level_hpa)
                               .definition.levels[query.level_hpa]
           grid  == GenerateGrid(query.samples)
           at    == GridPoint(grid, Len(build.log) + 1)
           lat   == grid.latitudes[at.r]
           lon   == grid.longitudes[at.c]
           f     == FetchPoint(cache, heap, PointKey(lat, lon, query, variable_key),
                               PointAnswer(build.option.source, variable_key, at.r, at.c,
                                           grid.rows, grid.cols))
           entry == [lat |-> lat, lon |-> lon, variables |-> <<variable_key>>,
                     hit |-> f.hit, reqs |-> f.reqs, fetched |-> f.fetched]
       IN  /\ cache' = f.cache
           /\ heap' = f.heap
           /\ fout' = [fout EXCEPT ![Len(fout)] =
                                    AfterPoint(build, query, variable_key, grid, entry)]
    /\ UNCHANGED <<fin, hist, recent, ncalls, concVars>>

NextSampler == StartField \/ SamplePoint

SpecSampler == InitSampler /\ [][NextSampler]_vars

\* the value build_weather_field is to record for a dataset it fetched: the
\* sample of the series at the position of the hour in the timeline, null
\* when the dataset has no such series or the series stops before it
SampleOf(fetched, variable_key, hour_key) ==
    LET idx == ResolveHourIndex(fetched.hourly, hour_key).idx
    IN  IF variable_key \notin DOMAIN fetched.hourly.series THEN None
        ELSE IF Len(fetched.hourly.series[variable_key]) <= idx THEN None
        ELSE fetched.hourly.series[variable_key][idx + 1]

\* C21: the fetches of a build are issued one after another (a step adds at
\* most one fetch, to the build in progress, and changes none made before);
\* a returned field has issued exactly rows * cols fetches, the k-th for the
\* point of row (k-1) div cols and column (k-1) mod cols (latitudes outer,
\* longitudes inner), each for the single resolved variable; its values
\* matrix has rows rows of cols entries in that order, each the sample of the
\* fetched series at the resolved hour, or null when the series is absent,
\* too short, or null there.
C21_OneFetchPerGridPointInRowMajorOrder ==
    /\ [][/\ Len(fout') >= Len(fout)
          /\ \A i \in 1..Len(fout) :
                /\ Len(fout'[i].log) - Len(fout[i].log) \in
                      (IF i = Len(fout) THEN {0, 1} ELSE {0})
                /\ SubSeq(fout'[i].log, 1, Len(fout[i].log)) = fout[i].log]_vars
    /\ [](\A i \in Fields :
            LET grid == fout[i].out.payload.grid
                key  == fout[i].out.payload.variable.open_meteo_key
                log  == fout[i].log
            IN  /\ Len(log) = grid.rows * grid.cols
                /\ fout[i].out.fetches = grid.rows * grid.cols
                /\ Len(grid.values) = grid.rows
                /\ \A r \in 1..grid.rows :
                      /\ Len(grid.values[r]) = grid.cols
                      /\ \A c \in 1..grid.cols :
                            LET entry == log[(r - 1) * grid.cols + c]
                            IN  /\ entry.lat = grid.latitudes[r]
                                /\ entry.lon = grid.longitudes[c]
                                /\ entry.variables = <<key>>
                                /\ grid.values[r][c] =
                                      SampleOf(entry.fetched, key,
                                               HourKey(fout[i].out.payload)))

\* a field of 6 x 12 points has been built from a source that mixes values,
\* nulls, short series and missing series: 72 fetches, the 13th for the
\* first point of the second row
C21_Witness ==
    /\ Len(fout) = 1
    /\ Fields = {1}
    /\ fout[1].option.source = "mixed"
    /\ Len(fout[1].log) = 72
    /\ fout[1].log[13].lat = fout[1].out.payload.grid.latitudes[2]
    /\ fout[1].log[13].lon = fout[1].out.payload.grid.longitudes[1]
    /\ fout[1].out.payload.grid.values[1][3] = Some(Lit(103))
    /\ fout[1].out.payload.grid.values[1][4] = None
    /\ Len(fout[1].log[1].fetched.hourly.series["wind_speed_200hPa"]) = 1
    /\ fout[1].out.payload.grid.values[1][1] = None
    /\ "wind_speed_200hPa" \notin DOMAIN fout[1].log[2].fetched.hourly.series
    /\ fout[1].out.payload.grid.values[1][2] = None

\* whether the k-th fetch of build i raised, in the client or in _resolve_hour_index
PointFails(i, k) ==
    PointValue(fout[i].log[k].fetched, fout[i].log[k].variables[1],
               HourKey(FieldQuery(fin.samples, fout[i].option))).res # "ok"

\* whether the dataset the k-th fetch of build i returned is in the cache
StillCached(i, k) ==
    LET entry == fout[i].log[k]
        n == CacheIndex(cache, PointKey(entry.lat, entry.lon,
                                        FieldQuery(fin.samples, fout[i].option),
                                        entry.variables[1]))
    IN  IF n = 0 THEN FALSE
        ELSE heap[heap[cache[n].obj].hourly].val = entry.fetched.hourly

\* what C25 says of every point but the cache: the build stops at the point
\* that fails, with a provider error and no grid
StopsAtFailure(i, k) ==
    /\ k = Len(fout[i].log)
    /\ fout[i].pc = "done"
    /\ fout[i].out.res = "provider_error"
    /\ fout[i].out.fetches = k
    /\ fout[i].out.payload = NoField

Repeats ==
    {i \in 2..Len(fout) :
        /\ fout[i - 1].out.res = "ok"
        /\ fout[i].option.variable = fout[i - 1].option.variable
        /\ fout[i].option.level_hpa = fout[i - 1].option.level_hpa}

\* C26 as stated: for every sample hint in 16..900, a build that succeeded
\* and is repeated immediately with the same timestamp, variable and level
\* issues no remote request: every grid point of the second build is a cache hit.
C26_RepeatedFieldIssuesNoRequest ==
    \A i \in Repeats :
        fin.samples \in 16..900 =>
            /\ fout[i].reqs = 0
            /\ \A k \in 1..Len(fout[i].log) : fout[i].log[k].hit

\* C26 amended: a build that succeeded and is repeated immediately with the
\* same timestamp, variable and level issues no remote request when its grid
\* has at most 128 points (the hints 16..128): every grid point of the second
\* build is a cache hit and the build returns a field; on a grid of more
\* than 128 points every grid point of the second build is a miss that issues
\* a remote request.
C26_RepeatedFieldWithinCapacity ==
    \A i \in Repeats :
        LET grid == fout[i - 1].out.payload.grid
        IN  /\ grid.rows * grid.cols <= CacheMaxSize <=> fin.samples <= 128
            /\ IF grid.rows * grid.cols <= CacheMaxSize
               THEN /\ fout[i].reqs = 0
                    /\ \A k \in 1..Len(fout[i].log) : fout[i].log[k].hit
                    /\ fout[i].pc = "done" => fout[i].out.res = "ok"
               ELSE /\ fout[i].reqs = Len(fout[i].log)
                    /\ \A k \in 1..Len(fout[i].log) : ~fout[i].log[k].hit

\* the grid of hint 128 has 8 x 16 = 128 points, as many as the cache holds:
\* the second build, asked of a source whose last request would fail, has
\* returned the field from 128 hits
C26_Witness ==
    /\ fin.samples = 128
    /\ Len(fout) = 2
    /\ Repeats = {2}
    /\ fout[1].reqs = 128
    /\ fout[2].option.source = "last_fails"
    /\ fout[2].out.res = "ok"
    /\ fout[2].reqs = 0
    /\ Len(fout[2].log) = 128
    /\ Len(cache) = CacheMaxSize

----------------------------------------------------------------------------
(* build_profile on the cache of the client: the model is resolved, the
   provider fetches its variables with client.fetch_hourly and works on the
   dataset it gets back *)

\* the Open-Meteo variables of the providers, numbered in lexicographic order
VariableNumber ==
    ("relative_humidity_700hPa" :> 1) @@ ("temperature_200hPa" :> 2)
    @@ ("temperature_850hPa" :> 3)
    @@ ("wind_u_component_200hPa" :> 4) @@ ("wind_u_component_300hPa" :> 5)
    @@ ("wind_u_component_500hPa" :> 6) @@ ("wind_u_component_850hPa" :> 7)
    @@ ("wind_v_component_200hPa" :> 8) @@ ("wind_v_component_300hPa" :> 9)
    @@ ("wind_v_component_500hPa" :> 10) @@ ("wind_v_component_850hPa" :> 11)

\* the variables list of each provider function
ProviderVariables(provider) ==
    IF provider = "_hv57_provider" THEN Hv57Variables
    ELSE IF provider = "_bufton_provider" THEN BuftonVariables
    ELSE GreenwoodVariables

\* the fetch_hourly call of a provider for a query
ProviderCall(provider, query) ==
    [lat |-> query.lat, lon |-> query.lon, date |-> DateKey(query),
     variables |-> [n \in 1..Len(ProviderVariables(provider)) |->
                      VariableNumber[ProviderVariables(provider)[n]]]]

\* a build_profile that lets the default provider fetch before it looks the model up
FetchPlan_FetchBeforeResolve(query) ==
    LET resolved == ResolveModelName(query.model)
    IN  IF resolved.res # "ok"
        THEN [fetch |-> TRUE, call |-> ProviderCall("_hv57_provider", query)]
        ELSE [fetch |-> TRUE, call |-> ProviderCall(PROVIDERS[resolved.key], query)]

\* what build_profile asks of the client: nothing when resolve_model_name
\* raises, else the call of the provider the name is bound to
FetchPlan(query) ==
    LET resolved == ResolveModelName(query.model)
    IN  IF resolved.res # "ok" THEN [fetch |-> FALSE, call |-> NoCall]
        ELSE [fetch |-> TRUE, call |-> ProviderCall(PROVIDERS[resolved.key], query)]

----------------------------------------------------------------------------
(* Specification of profiles built one after another on one cache *)

\* number of build_profile calls
MaxServed == 3

\* latitude and longitude in 1e-4 degree
ServedQuery ==
    [lat |-> 404001, lon |-> -37000, timestamp |-> [day |-> 0, hour |-> 12, minute |-> 30],
     model |-> NotGiven, ground_cn2_day |-> 50000, ground_cn2_night |-> 5,
     wavelength_nm |-> 810]

ServedModels ==
    {Given(Hv57), Given(<<" ", "H", "V", "5", "7", " ">>), Given(Bufton),
     Given(Greenwood), Given(<<"h", "v", "5">>),
     Given(<<"u", "n", "k", "n", "o", "w", "n", "-", "m", "o", "d", "e", "l">>)}

\* the data source answers with a full dataset or not at all
ServedResponses ==
    {[outcome |-> "hourly",
      value |-> [time |-> Timeline(<<11, 12>>),
                 series |-> Series300(Some(Lit(4000)), Some(Lit(0))) @@ SeriesOther]],
     [outcome |-> "conn_error", value |-> [time |-> NoTimeline, series |-> <<>>]]}

InitServed ==
    /\ InitCache
    /\ InitNoThreads
    /\ fin = ServedQuery
    /\ fout = <<>>

\* build_profile(query) with query.model = m
BuildProfileOnCache ==
    /\ Len(fout) < MaxServed
    /\ \E m \in ServedModels, resp \in ServedResponses :
          LET query == [fin EXCEPT !.model = m]
              plan  == FetchPlan(query)
              rec   == FetchHourly(cache, heap, plan.call, resp.outcome, resp.value, 1).rec
              fetched == [res |-> rec.res,
                          hourly |-> IF rec.res = "ok" THEN rec.val[2]
                                     ELSE [time |-> NoTimeline, series |-> <<>>]]
          IN  IF plan.fetch
              THEN /\ DoFetch(plan.call, resp.outcome, resp.value)
                   /\ ncalls' = ncalls + 1
                   /\ fout' = Append(fout, [model |-> m, fetched |-> TRUE, reqs |-> rec.reqs,
                                            out |-> BuildProfile(query, fetched)])
              ELSE /\ UNCHANGED cacheVars
                   /\ fout' = Append(fout, [model |-> m, fetched |-> FALSE, reqs |-> 0,
                                            out |-> BuildProfile(query, fetched)])
    /\ UNCHANGED <<fin, concVars>>

NextServed == BuildProfileOnCache

SpecServed == InitServed /\ [][NextServed]_vars

\* C27: build_profile for a model name that is not registered raises the
\* model-not-found error without calling the client: no remote request is
\* issued and no cache entry is added, removed or moved.
C27_UnknownModelTouchesNothing ==
    /\ [][(/\ Len(fout') = Len(fout) + 1
           /\ ResolveModelName(fout'[Len(fout')].model).res # "ok") =>
              /\ cache' = cache
              /\ heap' = heap
              /\ recent' = recent
              /\ hist' = hist
              /\ ncalls' = ncalls]_vars
    /\ [](\A i \in 1..Len(fout) :
            ResolveModelName(fout[i].model).res # "ok" =>
                /\ fout[i].out.res = "model_not_found"
                /\ fout[i].out.profile = <<>>
                /\ ~fout[i].fetched
                /\ fout[i].reqs = 0)

\* after a Bufton and a Hufnagel-Valley profile were built from fetched data,
\* an unregistered name has been refused with both datasets still cached in
\* the same order
C27_Witness ==
    /\ Len(fout) = 3
    /\ fout[1].out.provider = "_bufton_provider" /\ fout[1].out.res = "ok"
    /\ fout[2].out.provider = "_hv57_provider" /\ fout[2].out.res = "ok"
    /\ fout[3].model = Given(<<"h", "v", "5">>)
    /\ fout[3].out.res = "model_not_found"
    /\ Len(cache) = 2
    /\ cache[1].key = CacheKey(ProviderCall("_bufton_provider", fin))
    /\ cache[2].key = CacheKey(ProviderCall("_hv57_provider", fin))
    /\ ncalls = 2

----------------------------------------------------------------------------
(* OGSStore: the JSON file of the ground stations.  A station is a record
   [id, name, aperture_m]; a key that is missing or null is None, and the file
   is the list of its stations in order *)

\* Python truthiness of payload.get("id"): a missing, null or empty id is falsy
Truthy(id) == id # None /\ id # Some("")

\* the identifiers f"station-{uuid4().hex[:8]}" can produce: uuid4 is random
\* and nothing keeps it from producing an identifier that is already stored
MaxUuid == 2

UuidName == <<"station-0", "station-1", "station-2">>

Uuid4Values == {UuidName[k] : k \in 1..MaxUuid}

RECURSIVE Without(_, _)
\* [item for item in data if item.get("id") != station_id]
Without(data, station_id) ==
    IF data = <<>> THEN <<>>
    ELSE IF Head(data).id # Some(station_id)
         THEN <<Head(data)>> \o Without(Tail(data), station_id)
         ELSE Without(Tail(data), station_id)

\* an upsert that appends the payload whether or not its id is stored
Upsert_AlwaysAppends(data, payload, uuid) ==
    LET identifier == IF Truthy(payload.id) THEN payload.id[1] ELSE uuid
        record == [payload EXCEPT !.id = Some(identifier)]
    IN  [file |-> Append(data, record), ret |-> record]

\* OGSStore.upsert(payload), with uuid the identifier that is generated when
\* the payload has none: the file that is written and the record returned
Upsert(data, payload, uuid) ==
    LET identifier == IF Truthy(payload.id) THEN payload.id[1] ELSE uuid
        record == [payload EXCEPT !.id = Some(identifier)]
        found == {idx \in 1..Len(data) : data[idx].id = Some(identifier)}
    IN  IF found # {}
        THEN [file |-> [data EXCEPT ![SetMin(found)] = record], ret |-> record]
        ELSE [file |-> Append(data, record), ret |-> record]

\* OGSStore.delete(station_id): the file afterwards and the value returned
Delete(data, station_id) ==
    LET filtered == Without(data, station_id)
    IN  IF Len(filtered) = Len(data) THEN [file |-> data, ret |-> FALSE]
        ELSE [file |-> filtered, ret |-> TRUE]

----------------------------------------------------------------------------
(* Specification of store calls run one at a time: fout is the file, fin the
   last call and what it returned *)

\* number of calls
MaxStoreCalls == 3

GivenIds == {"ogs-a", "station-0"}

Station(id, name) == [id |-> id, name |-> name, aperture_m |-> Some(1)]

StorePayloads ==
    {Station(id, name) : id \in {None, Some("")} \cup {Some(i) : i \in GivenIds},
                         name \in {"n1", "n2"}}

\* files written by the store: every station has an id and the ids differ
StoreFiles ==
    {<<>>, <<Station(Some("ogs-a"), "n0")>>, <<Station(Some("station-0"), "n0")>>,
     <<Station(Some("ogs-a"), "n0"), Station(Some("station-0"), "n0")>>,
     <<Station(Some("station-0"), "n0"), Station(Some("ogs-a"), "n0")>>}

NoStoreCall ==
    [op |-> "none", payload |-> Station(None, ""), station_id |-> "", uuid |-> "",
     returned |-> Station(None, ""), removed |-> FALSE]

InitStore ==
    /\ InitCache
    /\ InitNoThreads
    /\ fin = NoStoreCall
    /\ fout \in StoreFiles

\* ogs_store.upsert(payload)
CallUpsert ==
    /\ ncalls < MaxStoreCalls
    /\ \E payload \in StorePayloads, uuid \in Uuid4Values :
          LET r == Upsert(fout, payload, uuid)
          IN  /\ fout' = r.file
              /\ fin' = [NoStoreCall EXCEPT !.op = "upsert", !.payload = payload,
                                            !.uuid = uuid, !.returned = r.ret]
    /\ ncalls' = ncalls + 1
    /\ UNCHANGED <<cache, heap, hist, recent, concVars>>

\* ogs_store.delete(station_id)
CallDelete ==
    /\ ncalls < MaxStoreCalls
    /\ \E station_id \in GivenIds \cup Uuid4Values \cup {"ogs-x"} :
          LET r == Delete(fout, station_id)
          IN  /\ fout' = r.file
              /\ fin' = [NoStoreCall EXCEPT !.op = "delete", !.station_id = station_id,
                                            !.removed = r.ret]
    /\ ncalls' = ncalls + 1
    /\ UNCHANGED <<cache, heap, hist, recent, concVars>>

\* ogs_store.delete_all()
CallDeleteAll ==
    /\ ncalls < MaxStoreCalls
    /\ fout' = <<>>
    /\ fin' = [NoStoreCall EXCEPT !.op = "delete_all"]
    /\ ncalls' = ncalls + 1
    /\ UNCHANGED <<cache, heap, hist, recent, concVars>>

NextStore == CallUpsert \/ CallDelete \/ CallDeleteAll

SpecStore == InitStore /\ [][NextStore]_vars

StoredIds(data) == {data[i].id : i \in 1..Len(data)}

----------------------------------------------------------------------------
(* Specification of two requests on the station file that run on worker
   threads at the same time.  _read and _write open the file without a lock;
   each is taken as one step.  fin is the file before the requests, fout the
   file, threads[t] the request of worker t and the list it has read *)

StoreWorkers == {1, 2}

\* f"station-{uuid4().hex[:8]}-{idx}" of list_ogs, by generated identifier and idx
IndexedUuidName ==
    ("station-0" :> <<"station-0-0", "station-0-1", "station-0-2", "station-0-3">>)
    @@ ("station-1" :> <<"station-1-0", "station-1-1", "station-1-2", "station-1-3">>)
    @@ ("station-2" :> <<"station-2-0", "station-2-1", "station-2-2", "station-2-3">>)

\* a record lacks a numeric aperture_m or an id
NeedsWrite(raw) ==
    \E idx \in 1..Len(raw) : raw[idx].aperture_m = None \/ ~Truthy(raw[idx].id)

\* the processed list of list_ogs
Processed(raw, uuid) ==
    [idx \in 1..Len(raw) |->
        [raw[idx] EXCEPT
            !.aperture_m = IF raw[idx].aperture_m = None THEN Some(1) ELSE raw[idx].aperture_m,
            !.id = IF Truthy(raw[idx].id) THEN raw[idx].id
                   ELSE Some(IndexedUuidName[uuid][idx])]]

IdleWorker == [pc |-> "idle", op |-> "none", payload |-> Station(None, ""), uuid |-> "", data |-> <<>>]

\* the identifier under which an add request stores its station
IdentifierOf(w) == IF Truthy(w.payload.id) THEN w.payload.id[1] ELSE w.uuid

\* station files found on disk: written by the store, or older records
\* without aperture_m or without id
RaceFiles ==
    {<<>>, <<Station(Some("ogs-a"), "n0")>>,
     <<[Station(Some("ogs-a"), "n0") EXCEPT !.aperture_m = None]>>,
     <<[Station(None, "n0") EXCEPT !.aperture_m = None], Station(Some("ogs-a"), "n0")>>}

RacePayloads == {Station(None, "n1"), Station(None, "n2"), Station(Some("ogs-b"), "n1")}

InitRace ==
    /\ InitCache
    /\ issued = <<>>
    /\ threads = [t \in StoreWorkers |-> IdleWorker]
    /\ fin \in RaceFiles
    /\ fout = fin

\* a POST /api/ogs or GET /api/ogs request is handed to worker t
Request(t) ==
    /\ threads[t].pc = "idle"
    /\ \/ \E payload \in RacePayloads, uuid \in Uuid4Values :
            threads' = [threads EXCEPT ![t] = [IdleWorker EXCEPT !.pc = "read", !.op = "add",
                                                 !.payload = payload, !.uuid = uuid]]
       \/ \E uuid \in Uuid4Values :
            threads' = [threads EXCEPT ![t] = [IdleWorker EXCEPT !.pc = "read", !.op = "list",
                                                 !.uuid = uuid]]
    /\ UNCHANGED <<cacheVars, issued, fin, fout>>

\* self._read() of upsert, or ogs_store.list() of list_ogs
ReadStore(t) ==
    /\ threads[t].pc = "read"
    /\ threads' = [threads EXCEPT ![t].data = fout,
                                  ![t].pc = IF threads[t].op = "list" /\ ~NeedsWrite(fout)
                                            THEN "done" ELSE "write"]
    /\ UNCHANGED <<cacheVars, issued, fin, fout>>

\* self._write(data) of upsert, or ogs_store.overwrite(processed) of list_ogs
WriteStore(t) ==
    /\ threads[t].pc = "write"
    /\ fout' = IF threads[t].op = "add"
               THEN Upsert(threads[t].data, threads[t].payload, threads[t].uuid).file
               ELSE Processed(threads[t].data, threads[t].uuid)
    /\ threads' = [threads EXCEPT ![t].pc = "done"]
    /\ UNCHANGED <<cacheVars, issued, fin>>

NextRace == \E t \in StoreWorkers : Request(t) \/ ReadStore(t) \/ WriteStore(t)

SpecRace == InitRace /\ [][NextRace]_vars

\* C29 as stated: when two requests that add different new stations, or one
\* add and one station-list read, have both completed, every added station
\* is in the file, whatever the order of their reads and writes.
C29_NoStationIsLost ==
    (/\ \A t \in StoreWorkers : threads[t].pc = "done"
     /\ \E t \in StoreWorkers : threads[t].op = "add"
     /\ \A t \in StoreWorkers :
           threads[t].op = "add" =>
               /\ Some(IdentifierOf(threads[t])) \notin StoredIds(fin)
               /\ \A u \in StoreWorkers \ {t} :
                     threads[u].op = "add" => IdentifierOf(threads[u]) # IdentifierOf(threads[t]))
    => \A t \in StoreWorkers :
           threads[t].op = "add" =>
               \E i \in 1..Len(fout) :
                   /\ fout[i].id = Some(IdentifierOf(threads[t]))
                   /\ fout[i].name = threads[t].payload.name

----------------------------------------------------------------------------
(* Dispatch of a request to the routes of the application.  A path is the
   sequence of its segments; the router tries the routes in the order they
   were declared and the first one whose path and method match handles the
   request *)

\* the /api routes in the order of their decorators
Routes ==
    << [method |-> "GET",    path |-> <<"api", "ogs">>,                     endpoint |-> "list_ogs"],
       [method |-> "POST",   path |-> <<"api", "ogs">>,                     endpoint |-> "add_ogs"],
       [method |-> "DELETE", path |-> <<"api", "ogs">>,                     endpoint |-> "clear_ogs"],
       [method |-> "DELETE", path |-> <<"api", "ogs", "{station_id}">>,     endpoint |-> "delete_ogs"],
       [method |-> "POST",   path |-> <<"api", "get_atmosphere_profile">>,  endpoint |-> "get_atmosphere_profile"],
       [method |-> "POST",   path |-> <<"api", "get_weather_field">>,       endpoint |-> "get_weather_field"],
       [method |-> "GET",    path |-> <<"api", "users", "{user_id}">>,      endpoint |-> "fetch_user"],
       [method |-> "POST",   path |-> <<"api", "login">>,                   endpoint |-> "login_user"],
       [method |-> "POST",   path |-> <<"api", "logout">>,                  endpoint |-> "logout_user"],
       [method |-> "GET",    path |-> <<"api", "users", "count">>,          endpoint |-> "user_count"],
       [method |-> "GET",    path |-> <<"api", "chats">>,                   endpoint |-> "list_chats"],
       [method |-> "POST",   path |-> <<"api", "chats">>,                   endpoint |-> "post_chat_message"] >>

\* a path parameter matches any one segment: its type is checked by the
\* handler's validation, after the route was chosen
IsParam(segment) == segment \in {"{station_id}", "{user_id}"}

PathMatches(route, path) ==
    /\ Len(route.path) = Len(path)
    /\ \A i \in 1..Len(path) : IsParam(route.path[i]) \/ route.path[i] = path[i]

\* the segments that parse as an integer
IntOf == ("1" :> 1) @@ ("2" :> 2) @@ ("3" :> 3) @@ ("4" :> 4) @@ ("5" :> 5)

NoResponse == [endpoint |-> "none", status |-> "none", body |-> None]

\* fetch_user(user_id: int)
FetchUser(users, segment) ==
    IF segment \notin DOMAIN IntOf
    THEN [endpoint |-> "fetch_user", status |-> "422", body |-> None]
    ELSE IF IntOf[segment] \in users
         THEN [endpoint |-> "fetch_user", status |-> "200", body |-> Some(IntOf[segment])]
         ELSE [endpoint |-> "fetch_user", status |-> "404", body |-> None]

\* user_count()
UserCount(users) ==
    [endpoint |-> "user_count", status |-> "200", body |-> Some(Cardinality(users))]

\* the handler of a route; the other handlers are not looked into
Handle(route, users, path) ==
    IF route.endpoint = "fetch_user" THEN FetchUser(users, path[3])
    ELSE IF route.endpoint = "user_count" THEN UserCount(users)
    ELSE [endpoint |-> route.endpoint, status |-> "handled", body |-> None]

\* the router: the first route that matches path and method handles the
\* request; a path that only matches with another method is answered 405,
\* a path that matches no route 404
Dispatch(users, method, path) ==
    LET full == {k \in 1..Len(Routes) :
                    PathMatches(Routes[k], path) /\ Routes[k].method = method}
        partial == {k \in 1..Len(Routes) : PathMatches(Routes[k], path)}
    IN  IF full # {} THEN Handle(Routes[SetMin(full)], users, path)
        ELSE IF partial # {} THEN [endpoint |-> "none", status |-> "405", body |-> None]
        ELSE [endpoint |-> "none", status |-> "404", body |-> None]

----------------------------------------------------------------------------
(* Specification of requests on the user routes: fin is the users table and
   the last request, fout the response *)

\* number of rows of the users table
MaxUsers == 3

\* number of requests
MaxRouted == 2

RoutedMethods == {"GET", "POST", "DELETE"}

RoutedPaths ==
    {<<"api", "users", s>> : s \in {"count", "1", "2", "3", "4", "abc"}}
    \cup {<<"api", "users">>, <<"api", "users", "count", "1">>, <<"api", "chats">>,
          <<"api", "ogs", "count">>, <<"api", "login">>}

InitRoutes ==
    /\ InitCache
    /\ InitNoThreads
    /\ \E n \in 0..MaxUsers : fin = [users |-> 1..n, method |-> "", path |-> <<>>]
    /\ fout = NoResponse

\* one request is routed and answered
Serve ==
    /\ ncalls < MaxRouted
    /\ \E method \in RoutedMethods, path \in RoutedPaths :
          /\ fin' = [fin EXCEPT !.method = method, !.path = path]
          /\ fout' = Dispatch(fin.users, method, path)
    /\ ncalls' = ncalls + 1
    /\ UNCHANGED <<cache, heap, hist, recent, concVars>>

NextRoutes == Serve

SpecRoutes == InitRoutes /\ [][NextRoutes]_vars

\* C30 as stated: a GET request to /api/users/count is handled by user_count
\* and answered with the number of registered users, never by fetch_user.
C30_CountIsNotCapturedByUserId ==
    (fin.method = "GET" /\ fin.path = <<"api", "users", "count">>) =>
        /\ fout.endpoint = "user_count"
        /\ fout.status = "200"
        /\ fout.body = Some(Cardinality(fin.users))

====
